---------------------------- MODULE Spec2Model ----------------------------
(***************************************************************************)
(* Model of src/app.py: the voice assistant's WebSocket orchestration     *)
(* loop (websocket_endpoint), the response generator (get_ai_response),   *)
(* the transcription adapter (transcribe_audio) and the two pure text     *)
(* functions (detect_language_from_text, detect_crisis_keywords).         *)
(*                                                                         *)
(* Text is modelled as a sequence of Unicode code points (naturals), so   *)
(* that lower-casing, substring search, whitespace splitting and the      *)
(* script-range scans are computed character by character as the Python   *)
(* code computes them.  The string literals of the source are reproduced  *)
(* code point by code point.  The non-English literals of src/app.py are  *)
(* stored in the file as Cyrillic and box-drawing characters (U+04xx,     *)
(* U+25xx), not as characters of the Indic blocks; the tables below keep  *)
(* exactly the characters that the file contains.                          *)
(***************************************************************************)
EXTENDS Integers, Sequences, FiniteSets, TLC

\* Romanised Hindi fragments (src/app.py:102-106).
hindi_phonetic_patterns ==
  <<
    <<107, 121, 97>>,  \* 'kya'
    <<104, 97, 105>>,  \* 'hai'
    <<104, 111, 111, 110>>,  \* 'hoon'
    <<109, 101, 105, 110>>,  \* 'mein'
    <<109, 97, 105, 110>>,  \* 'main'
    <<97, 97, 112>>,  \* 'aap'
    <<116, 117, 109>>,  \* 'tum'
    <<104, 117, 109>>,  \* 'hum'
    <<107, 97, 105, 115, 101>>,  \* 'kaise'
    <<107, 97, 104, 97, 110>>,  \* 'kahan'
    <<107, 97, 98>>,  \* 'kab'
    <<107, 121, 117, 110>>,  \* 'kyun'
    <<110, 97, 104, 105, 110>>,  \* 'nahin'
    <<110, 97, 104, 105>>,  \* 'nahi'
    <<116, 104, 105, 107>>,  \* 'thik'
    <<97, 99, 99, 104, 97>>,  \* 'accha'
    <<116, 104, 101, 101, 107>>,  \* 'theek'
    <<98, 97, 104, 117, 116>>,  \* 'bahut'
    <<98, 111, 104, 111, 116>>,  \* 'bohot'
    <<107, 117, 99, 104>>,  \* 'kuch'
    <<107, 111, 105>>,  \* 'koi'
    <<121, 101, 104>>,  \* 'yeh'
    <<119, 111, 104>>  \* 'woh'
  >>

\* Romanised Bengali fragments (src/app.py:108-111).
bengali_phonetic_patterns ==
  <<
    <<97, 109, 105>>,  \* 'ami'
    <<116, 117, 109, 105>>,  \* 'tumi'
    <<97, 112, 110, 105>>,  \* 'apni'
    <<107, 101, 109, 111, 110>>,  \* 'kemon'
    <<97, 99, 104, 101, 110>>,  \* 'achen'
    <<98, 104, 97, 108, 111>>,  \* 'bhalo'
    <<107, 104, 97, 114, 97, 112>>,  \* 'kharap'
    <<107, 105>>,  \* 'ki'
    <<107, 101, 110, 111>>,  \* 'keno'
    <<107, 111, 116, 104, 97, 105>>,  \* 'kothai'
    <<107, 111, 98, 101>>,  \* 'kobe'
    <<101, 107, 116, 117>>,  \* 'ektu'
    <<107, 105, 99, 104, 117>>,  \* 'kichu'
    <<97, 99, 104, 101>>,  \* 'ache'
    <<110, 97, 105>>  \* 'nai'
  >>

\* Crisis phrases per language, in dict insertion order en, hi, bn, ta, te, gu, kn, ml, pa (src/app.py:208-222); each keyword is the literal's code points.
crisis_keywords ==
  [ en |-> <<
       \* 'suicide'
       <<115, 117, 105, 99, 105, 100, 101>>,
       \* 'kill myself'
       <<107, 105, 108, 108, 32, 109, 121, 115, 101, 108, 102>>,
       \* 'end my life'
       <<101, 110, 100, 32, 109, 121, 32, 108, 105, 102, 101>>,
       \* 'want to die'
       <<119, 97, 110, 116, 32, 116, 111, 32, 100, 105, 101>>,
       \* 'self harm'
       <<115, 101, 108, 102, 32, 104, 97, 114, 109>>,
       \* 'hurt myself'
       <<104, 117, 114, 116, 32, 109, 121, 115, 101, 108, 102>>,
       \* 'no reason to live'
       <<110, 111, 32, 114, 101, 97, 115, 111, 110, 32, 116, 111, 32, 108, 105, 118, 101>>,
       \* 'better off dead'
       <<98, 101, 116, 116, 101, 114, 32, 111, 102, 102, 32, 100, 101, 97, 100>>,
       \* 'end it all'
       <<101, 110, 100, 32, 105, 116, 32, 97, 108, 108>>,
       \* "can't go on"
       <<99, 97, 110, 39, 116, 32, 103, 111, 32, 111, 110>>,
       \* 'no hope'
       <<110, 111, 32, 104, 111, 112, 101>>,
       \* 'worthless'
       <<119, 111, 114, 116, 104, 108, 101, 115, 115>>
     >>,
    hi |-> <<
       <<1088, 1076, 1046, 1088, 1076, 1076, 1088, 1077, 1053, 1088, 1076, 1086, 1088, 1076,
       9571, 1088, 1076, 1076, 1088, 1077, 1053, 1088, 1076, 1087, 1088, 1076, 9563>>,
       <<1088, 1076, 1086, 1088, 1076, 9617, 1088, 1076, 1080, 1088, 1076, 9563, 32, 1088,
       1076, 1066, 1088, 1076, 9563, 1088, 1076, 9571, 1088, 1076, 1076, 1088, 1076, 9563>>,
       <<1088, 1076, 1086, 1088, 1076, 9617, 1088, 1076, 1080, 1088, 1076, 9563, 32, 1088,
       1076, 1066, 1088, 1076, 9563, 1088, 1076, 9571, 1088, 1076, 1076, 1088, 1077, 1040>>,
       <<1088, 1076, 1068, 1088, 1076, 9563, 1088, 1076, 1080, 32, 1088, 1076, 1078, 1088,
       1077, 1047, 1088, 1076, 1080, 1088, 1076, 9563>>,
       <<1088, 1076, 1062, 1088, 1077, 1041, 1088, 1076, 1078, 32, 1088, 1076, 1061, 1088,
       1077, 1051, 32, 1088, 1076, 1080, 1088, 1077, 1041, 1088, 1076, 1061, 1088, 1076, 9557,
       1088, 1076, 9563, 1088, 1076, 1080>>,
       <<1088, 1076, 1086, 1088, 1077, 1052, 1088, 1076, 1076, 32, 1088, 1076, 1066, 1088,
       1076, 9563, 1088, 1076, 9571, 1088, 1076, 1076, 1088, 1076, 9563>>,
       <<1088, 1076, 1068, 1088, 1077, 1040, 1088, 1076, 1080, 1088, 1076, 9563, 32, 1088,
       1076, 1080, 1088, 1076, 9571, 1088, 1077, 1040, 1088, 1076, 1042, 32, 1088, 1076, 1066,
       1088, 1076, 9563, 1088, 1076, 9571, 1088, 1076, 1076, 1088, 1076, 9563>>,
       <<1088, 1076, 1062, 1088, 1076, 1076, 1088, 1077, 1053, 1088, 1076, 1086, 32, 1088,
       1076, 1061, 1088, 1076, 9617, 1088, 1076, 1080, 1088, 1076, 9563, 32, 1088, 1076, 1066,
       1088, 1076, 9563, 1088, 1076, 9571, 1088, 1076, 1076, 1088, 1076, 9563>>,
       <<1088, 1076, 1061, 1088, 1077, 1051, 1088, 1076, 1048, 32, 1088, 1076, 1049, 1088,
       1076, 1086, 1088, 1077, 1053, 1088, 1076, 1086, 1088, 1077, 1040, 1088, 1076, 1078, 32,
       1088, 1076, 1080, 1088, 1076, 9571, 1088, 1077, 1040, 1088, 1076, 1042>>
     >>,
    bn |-> <<
       <<1088, 1078, 1046, 1088, 1078, 1076, 1088, 1079, 1053, 1088, 1078, 1086, 1088, 1078,
       9571, 1088, 1078, 1076, 1088, 1079, 1053, 1088, 1078, 1087, 1088, 1078, 9563>>,
       <<1088, 1078, 1086, 1088, 1078, 9617, 1088, 1078, 1076, 1088, 1079, 1047, 32, 1088,
       1078, 1066, 1088, 1078, 9563, 1088, 1078, 1047>>,
       <<1088, 1078, 1068, 1088, 1079, 1040, 1088, 1078, 1084, 1088, 1078, 1080, 32, 1088,
       1078, 9570, 1088, 1079, 1047, 1088, 1078, 9558>>,
       <<1088, 1078, 1080, 1088, 1078, 9488, 1088, 1078, 1068, 1088, 1079, 1047, 1088, 1078,
       1061, 1088, 1079, 1047, 32, 1088, 1078, 1046, 1088, 1078, 1064, 1088, 1078, 9563, 1088,
       1078, 1076>>,
       <<1088, 1078, 1084, 1088, 1078, 9563, 1088, 1078, 1041, 1088, 1078, 1066, 1088, 1078,
       1076, 1088, 1079, 1047, 32, 1088, 1078, 1066, 1088, 1078, 9563, 1088, 1078, 1047, 32,
       1088, 1078, 1080, 1088, 1078, 9563>>,
       <<1088, 1078, 1086, 1088, 1078, 9617, 1088, 1079, 1047, 32, 1088, 1078, 1087, 1088,
       1079, 1047, 1088, 1078, 1076, 1088, 1079, 1047, 32, 1088, 1078, 1066, 1088, 1078, 9563,
       1088, 1078, 1047>>,
       <<1088, 1078, 1061, 1088, 1079, 1051, 1088, 1078, 1080, 32, 1088, 1078, 1046, 1088,
       1078, 9570, 1088, 1078, 9563, 32, 1088, 1078, 1080, 1088, 1079, 1047, 1088, 1078,
       1047>>
     >>,
    ta |-> <<
       <<1088, 1086, 1076, 1088, 1086, 9618, 1088, 1087, 1053, 1088, 1086, 1061, 1088, 1087,
       1050, 1088, 1086, 9619, 1088, 1087, 1048>>,
       <<1088, 1086, 1066, 1088, 1086, 9563, 1088, 1086, 1061, 32, 1088, 1086, 9569, 1088,
       1086, 9488, 1088, 1086, 9617, 1088, 1087, 1041, 1088, 1086, 1086, 1088, 1087, 1053,
       1088, 1086, 1082, 1088, 1087, 1041, 1088, 1086, 1061, 1088, 1086, 9488, 1088, 1086,
       9618, 1088, 1087, 1047, 1088, 1086, 1081, 1088, 1087, 1053>>,
       <<1088, 1086, 9569, 1088, 1086, 9563, 1088, 1086, 9508, 32, 1088, 1086, 9569, 1088,
       1086, 9488, 1088, 1086, 9617, 1088, 1087, 1041, 1088, 1086, 1086, 1088, 1087, 1053,
       1088, 1086, 1082, 1088, 1086, 9569, 1088, 1086, 9488, 1088, 1086, 9619, 1088, 1087,
       1053, 1088, 1086, 9619, 1088, 1087, 1048>>
     >>,
    te |-> <<
       <<1088, 9617, 1046, 1088, 9617, 1076, 1088, 9618, 1053, 1088, 9617, 1086, 1088, 9617,
       9571, 1088, 9617, 1076, 1088, 9618, 1053, 1088, 9617, 1087>>,
       <<1088, 9617, 1066, 1088, 9617, 9563, 1088, 9617, 9569, 1088, 9617, 9563, 1088, 9617,
       9619, 1088, 9617, 1080, 1088, 9618, 1041, 1088, 9617, 1061, 1088, 9618, 1041, 1088,
       9617, 1042, 1088, 9617, 1071, 1088, 9618, 1041, 1088, 9617, 1080, 1088, 9618, 1053,
       1088, 9617, 1080, 1088, 9617, 9563, 1088, 9617, 1080, 1088, 9618, 1041>>,
       <<1088, 9617, 1084, 1088, 9618, 1053, 1088, 9617, 9617, 1088, 9617, 1076, 1088, 9617,
       1061, 1088, 9617, 9563, 1088, 9617, 9619, 1088, 9617, 1080, 1088, 9617, 9488, 32, 1088,
       9617, 9619, 1088, 9618, 1047, 1088, 9617, 1078, 1088, 9618, 1041>>
     >>,
    gu |-> <<
       <<1088, 1082, 1046, 1088, 1082, 1076, 1088, 1083, 1053, 1088, 1082, 1086, 1088, 1082,
       9571, 1088, 1082, 1076, 1088, 1083, 1053, 1088, 1082, 1087, 1088, 1082, 9563>>,
       <<1088, 1082, 1086, 1088, 1082, 9617, 1088, 1082, 9569, 1088, 1083, 1041, 1088, 1082,
       1042, 32, 1088, 1082, 1067, 1088, 1083, 1047>>,
       <<1088, 1082, 1068, 1088, 1083, 1040, 1088, 1082, 9569, 1088, 1082, 9569, 1088, 1083,
       1041, 1088, 1082, 1042, 32, 1088, 1082, 1080, 1088, 1082, 1077, 1088, 1083, 1040>>
     >>,
    kn |-> <<
       <<1088, 9619, 1046, 1088, 9619, 1076, 1088, 9474, 1053, 1088, 9619, 1086, 1088, 9619,
       9571, 1088, 9619, 1076, 1088, 9474, 1053, 1088, 9619, 1087, 1088, 9474, 1046>>,
       <<1088, 9619, 9557, 1088, 9619, 9563, 1088, 9619, 1087, 1088, 9619, 1084, 1088, 9474,
       1047, 1088, 9619, 1061, 1088, 9474, 1041>>,
       <<1088, 9619, 1084, 1088, 9619, 1078, 1088, 9474, 1041, 1088, 9619, 1061, 1088, 9474,
       1041, 32, 1088, 9619, 1084, 1088, 9474, 1047, 1088, 9619, 1073>>
     >>,
    ml |-> <<
       <<1088, 9508, 1046, 1088, 9508, 1076, 1088, 9569, 1053, 1088, 9508, 1086, 1088, 9508,
       9571, 1088, 9508, 1076, 1088, 9569, 1053, 1088, 9508, 1087>>,
       <<1088, 9508, 1086, 1088, 9508, 9617, 1088, 9508, 9488, 1088, 9508, 1061, 1088, 9569,
       1053, 1088, 9508, 1061, 1088, 9508, 1075, 1088, 9508, 1042>>,
       <<1088, 9508, 1068, 1088, 9569, 1040, 1088, 9508, 9569, 1088, 9508, 9488, 1088, 9508,
       1061, 1088, 9569, 1053, 1088, 9508, 1061, 1088, 9508, 1075, 1088, 9569, 1053, 1088,
       9508, 1071>>
     >>,
    pa |-> <<
       <<1088, 1080, 1062, 1088, 1081, 1041, 1088, 1080, 1078, 1088, 1080, 1061, 1088, 1081,
       1041, 1088, 1080, 9557, 1088, 1080, 9565, 1088, 1081, 1040>>,
       <<1088, 1080, 1086, 1088, 1080, 9617, 1088, 1080, 1080, 1088, 1080, 9563, 32, 1088,
       1080, 1066, 1088, 1080, 9563, 1088, 1080, 9571, 1088, 1081, 1041, 1088, 1081, 9617,
       1088, 1080, 1078, 1088, 1080, 9563>>,
       <<1088, 1080, 1068, 1088, 1081, 1040, 1088, 1080, 1075, 1088, 1080, 9563, 32, 1088,
       1080, 1080, 1088, 1080, 9571, 1088, 1081, 1040, 1088, 1080, 1042, 32, 1088, 1080, 1066,
       1088, 1080, 9563, 1088, 1080, 9571, 1088, 1081, 1041, 1088, 1081, 9617, 1088, 1080,
       1078, 1088, 1080, 9563>>
     >> ]

\* Fallback sentences of get_ai_response (src/app.py:319-329); each value is the literal's code points.
fallback_messages ==
  \* hi: 185 characters
  [ hi |->
       <<1088, 1076, 1086, 1088, 1077, 1041, 1088, 1076, 1069, 1088, 1077, 1047, 32, 1088,
       1076, 1045, 1088, 1076, 1085, 1088, 1077, 1040, 32, 1088, 1076, 1046, 1088, 1076, 1082,
       1088, 1076, 1061, 1088, 1077, 1040, 32, 1088, 1076, 1084, 1088, 1076, 9563, 1088, 1076,
       1076, 32, 1088, 1076, 9557, 1088, 1076, 1086, 1088, 1076, 1069, 1088, 1076, 1080, 1088,
       1077, 1047, 32, 1088, 1076, 1086, 1088, 1077, 1047, 1088, 1076, 1042, 32, 1088, 1076,
       1082, 1088, 1076, 9617, 1088, 1077, 1047, 1088, 1076, 9570, 1088, 1076, 9563, 1088,
       1076, 1080, 1088, 1077, 1040, 32, 1088, 1076, 9571, 1088, 1077, 1051, 32, 1088, 1076,
       9617, 1088, 1076, 9571, 1088, 1077, 1040, 32, 1088, 1076, 9571, 1088, 1077, 1048, 1088,
       1077, 1076, 32, 1088, 1076, 1061, 1088, 1077, 1043, 1088, 1076, 1082, 1088, 1076, 1087,
       1088, 1076, 9563, 32, 1088, 1076, 1083, 1088, 1076, 9488, 1088, 1076, 9617, 32, 1088,
       1076, 9557, 1088, 1077, 1047, 32, 1088, 1076, 1061, 1088, 1077, 1051, 1088, 1076, 9570,
       1088, 1076, 9488, 1088, 1076, 9570, 32, 1088, 1076, 1061, 1088, 1076, 9617, 1088, 1077,
       1047, 1088, 1076, 1042, 1088, 1077, 1076>>,
  \* bn: 179 characters
    bn |->
       <<1088, 1078, 1046, 1088, 1078, 1086, 1088, 1078, 9488, 32, 1088, 1078, 1055, 1088,
       1078, 1062, 1088, 1078, 1080, 32, 1088, 1078, 1046, 1088, 1078, 1082, 1088, 1078, 1080,
       1088, 1078, 9563, 1088, 1078, 9617, 32, 1088, 1078, 1061, 1088, 1078, 1077, 1088, 1078,
       9563, 32, 1088, 1078, 1084, 1088, 1079, 1041, 1088, 1078, 1069, 1088, 1078, 1076, 1088,
       1079, 1047, 32, 1088, 1078, 9557, 1088, 1078, 1086, 1088, 1078, 9557, 1088, 1079, 1053,
       1088, 1078, 1087, 1088, 1078, 9563, 32, 1088, 1078, 9571, 1088, 1078, 1066, 1088, 1079,
       1053, 1088, 1078, 1067, 1088, 1079, 1047, 1088, 1077, 1076, 32, 1088, 1078, 1045, 1088,
       1078, 1080, 1088, 1079, 1041, 1088, 1078, 1063, 1088, 1079, 1053, 1088, 1078, 9617,
       1088, 1078, 9571, 32, 1088, 1078, 1061, 1088, 1078, 9617, 1088, 1079, 1047, 32, 1088,
       1078, 1046, 1088, 1078, 1084, 1088, 1078, 9563, 1088, 1078, 9617, 32, 1088, 1078, 1066,
       1088, 1079, 1047, 1088, 1078, 9558, 1088, 1079, 1053, 1088, 1078, 1071, 1088, 1078,
       9563, 32, 1088, 1078, 1061, 1088, 1078, 9617, 1088, 1079, 1041, 1088, 1078, 1080, 1088,
       1077, 1076>>,
  \* ta: 248 characters
    ta |->
       <<1088, 1086, 1080, 1088, 1086, 9563, 1088, 1086, 1081, 1088, 1087, 1053, 32, 1088,
       1086, 1047, 1088, 1086, 1082, 1088, 1087, 1053, 1088, 1086, 1082, 1088, 1087, 1051,
       1088, 1086, 1076, 1088, 1087, 1041, 32, 1088, 1086, 1049, 1088, 1086, 1065, 1088, 1087,
       1053, 1088, 1086, 1061, 1088, 1086, 9474, 1088, 1087, 1053, 32, 1088, 1086, 1066, 1088,
       1087, 1046, 1088, 1086, 1087, 1088, 1087, 1053, 1088, 1086, 1076, 1088, 1086, 9488,
       1088, 1086, 1087, 1088, 1087, 1048, 1088, 1086, 1082, 1088, 1087, 1053, 32, 1088, 1086,
       1082, 1088, 1087, 1041, 1088, 1086, 9617, 1088, 1086, 9488, 1088, 1086, 1080, 1088,
       1087, 1053, 1088, 1086, 1076, 1088, 1087, 1041, 32, 1088, 1086, 1061, 1088, 1087, 1050,
       1088, 1086, 9474, 1088, 1087, 1053, 1088, 1086, 9569, 1088, 1086, 1076, 1088, 1086,
       9488, 1088, 1086, 9619, 1088, 1087, 1053, 32, 1088, 1086, 1066, 1088, 1086, 9488, 1088,
       1086, 1061, 1088, 1087, 1053, 1088, 1086, 1061, 1088, 1086, 9619, 1088, 1087, 1053, 32,
       1088, 1086, 1049, 1088, 1086, 9474, 1088, 1087, 1053, 1088, 1086, 9474, 1088, 1086,
       1076, 1088, 1087, 1041, 46, 32, 1088, 1086, 1086, 1088, 1087, 1040, 1088, 1086, 1075,
       1088, 1087, 1053, 1088, 1086, 1071, 1088, 1087, 1041, 1088, 1086, 1086, 1088, 1087,
       1053, 32, 1088, 1086, 1086, 1088, 1087, 1041, 1088, 1086, 1087, 1088, 1086, 9618, 1088,
       1087, 1053, 1088, 1086, 1066, 1088, 1086, 9488, 1088, 1086, 1061, 1088, 1087, 1053,
       1088, 1086, 1061, 1088, 1086, 9569, 1088, 1087, 1041, 1088, 1086, 1086, 1088, 1087,
       1053, 46>>,
  \* te: 228 characters
    te |->
       <<1088, 9617, 1080, 1088, 9618, 1047, 1088, 9617, 1080, 1088, 9618, 1041, 32, 1088,
       9617, 1047, 1088, 9617, 1082, 1088, 9618, 1053, 1088, 9617, 1082, 1088, 9618, 1041,
       1088, 9617, 1073, 1088, 9618, 1041, 32, 1088, 9617, 1086, 1088, 9618, 1040, 32, 1088,
       9617, 9557, 1088, 9617, 1042, 1088, 9617, 1078, 1088, 9618, 1047, 1088, 9617, 9570,
       1088, 9617, 9563, 1088, 9617, 1080, 1088, 9618, 1053, 1088, 9617, 1080, 1088, 9617,
       9488, 32, 1088, 9617, 1045, 1088, 9617, 9617, 1088, 9618, 1053, 1088, 9617, 1077, 1088,
       9617, 1042, 32, 1088, 9617, 1066, 1088, 9618, 1047, 1088, 9617, 9557, 1088, 9618, 1041,
       1088, 9617, 1061, 1088, 9618, 1051, 1088, 9617, 9569, 1088, 9617, 1073, 1088, 9617,
       1042, 1088, 9617, 9619, 1088, 9618, 1051, 32, 1088, 9617, 9557, 1088, 9617, 1086, 1088,
       9617, 9557, 1088, 9618, 1053, 1088, 9617, 1087, 32, 1088, 9617, 1049, 1088, 9617, 1042,
       1088, 9617, 1078, 1088, 9617, 9488, 46, 32, 1088, 9617, 1078, 1088, 9617, 1087, 1088,
       9617, 1066, 1088, 9618, 1047, 1088, 9617, 9557, 1088, 9617, 9488, 32, 1088, 9617, 1086,
       1088, 9617, 9474, 1088, 9618, 1053, 1088, 9617, 9619, 1088, 9618, 1040, 32, 1088, 9617,
       1082, 1088, 9618, 1053, 1088, 9617, 9617, 1088, 9617, 1087, 1088, 9617, 1076, 1088,
       9618, 1053, 1088, 9617, 1080, 1088, 9617, 9488, 1088, 9617, 1042, 1088, 9617, 1066,
       1088, 9617, 1042, 1088, 9617, 1073, 1088, 9617, 9488, 46>>,
  \* gu: 192 characters
    gu |->
       <<1088, 1082, 1086, 1088, 1082, 1080, 1088, 1083, 1047, 32, 1088, 1082, 9571, 1088,
       1082, 1086, 1088, 1082, 1075, 1088, 1082, 9563, 1088, 1082, 1042, 32, 1088, 1082, 1076,
       1088, 1082, 1086, 1088, 1082, 9563, 1088, 1082, 9617, 1088, 1083, 1040, 32, 1088, 1082,
       9569, 1088, 1082, 9563, 1088, 1082, 1076, 32, 1088, 1082, 9557, 1088, 1082, 1086, 1088,
       1082, 1068, 1088, 1082, 9569, 1088, 1082, 9563, 1088, 1082, 1086, 1088, 1082, 9563,
       1088, 1082, 1042, 32, 1088, 1082, 9557, 1088, 1082, 1086, 1088, 1082, 9557, 1088, 1083,
       1053, 1088, 1082, 1087, 1088, 1082, 9563, 32, 1088, 1082, 1046, 1088, 1082, 9569, 1088,
       1083, 1040, 32, 1088, 1082, 9617, 1088, 1082, 9571, 1088, 1083, 1040, 32, 1088, 1082,
       1067, 1088, 1083, 1047, 46, 32, 1088, 1082, 1061, 1088, 1083, 1043, 1088, 1082, 1082,
       1088, 1082, 9563, 32, 1088, 1082, 1061, 1088, 1082, 9617, 1088, 1083, 1040, 1088, 1082,
       1080, 1088, 1083, 1047, 32, 1088, 1082, 1083, 1088, 1082, 9617, 1088, 1083, 1040, 32,
       1088, 1082, 1082, 1088, 1083, 1053, 1088, 1082, 9617, 1088, 1082, 1087, 1088, 1082,
       9563, 1088, 1082, 9557, 32, 1088, 1082, 1061, 1088, 1082, 9617, 1088, 1083, 1051, 46>>,
  \* kn: 269 characters
    kn |->
       <<1088, 9619, 1080, 1088, 9619, 9563, 1088, 9619, 1080, 1088, 9474, 1041, 32, 1088,
       9619, 1048, 1088, 9619, 1063, 32, 1088, 9619, 1080, 1088, 9619, 9488, 1088, 9619, 1086,
       1088, 9474, 1053, 1088, 9619, 1086, 32, 1088, 9619, 9557, 1088, 9619, 1042, 1088, 9619,
       1078, 1088, 9474, 1047, 1088, 9619, 9570, 1088, 9619, 9569, 1088, 9619, 1080, 1088,
       9474, 1053, 1088, 9619, 1080, 1088, 9474, 1041, 32, 1088, 9619, 1045, 1088, 9619, 9617,
       1088, 9474, 1053, 1088, 9619, 1077, 1088, 9619, 1086, 1088, 9619, 9563, 1088, 9619,
       1073, 1088, 9619, 9488, 1088, 9619, 1061, 1088, 9474, 1050, 1088, 9619, 9474, 1088,
       9474, 1053, 1088, 9619, 9474, 1088, 9474, 1041, 1088, 9619, 9569, 1088, 9619, 9619,
       1088, 9474, 1053, 1088, 9619, 9619, 1088, 9619, 9488, 32, 1088, 9619, 9557, 1088, 9619,
       1086, 1088, 9619, 9557, 1088, 9474, 1053, 1088, 9619, 1087, 1088, 9474, 1046, 32, 1088,
       9619, 1054, 1088, 9619, 1078, 1088, 9474, 1041, 1088, 9619, 9617, 1088, 9619, 9488,
       1088, 9619, 9557, 1088, 9474, 1041, 1088, 9619, 1076, 1088, 9474, 1053, 1088, 9619,
       1076, 1088, 9619, 9488, 1088, 9619, 1078, 1088, 9474, 1053, 1088, 9619, 1078, 1088,
       9474, 1047, 1088, 9619, 1080, 1088, 9474, 1046, 46, 32, 1088, 9619, 1078, 1088, 9619,
       1087, 1088, 9619, 9569, 1088, 9619, 9488, 1088, 9619, 1071, 1088, 9474, 1053, 1088,
       9619, 1071, 1088, 9474, 1041, 32, 1088, 9619, 1086, 1088, 9619, 1076, 1088, 9474, 1053,
       1088, 9619, 1076, 1088, 9474, 1046, 32, 1088, 9619, 1082, 1088, 9474, 1053, 1088, 9619,
       9617, 1088, 9619, 1087, 1088, 9619, 1076, 1088, 9474, 1053, 1088, 9619, 1080, 1088,
       9619, 9488, 1088, 9619, 9557, 1088, 9619, 9488, 46>>,
  \* ml: 256 characters
    ml |->
       <<1088, 9508, 1054, 1088, 9508, 1080, 1088, 9508, 9488, 1088, 9508, 1061, 1088, 9569,
       1053, 1088, 9508, 1061, 1088, 9569, 1053, 32, 1088, 9508, 1047, 1088, 9508, 1082, 1088,
       9569, 1053, 1088, 9508, 1082, 1088, 9569, 1051, 1088, 9569, 9563, 32, 1088, 9508, 1080,
       1088, 9508, 9488, 1088, 9508, 1065, 1088, 9569, 1053, 1088, 9508, 1065, 1088, 9508,
       9474, 1088, 9569, 1041, 1088, 9508, 1071, 1088, 9569, 1046, 32, 1088, 9508, 9557, 1088,
       9508, 1080, 1088, 9569, 1053, 1088, 9508, 1078, 1088, 9569, 1047, 1088, 9508, 9570,
       1088, 9508, 1042, 32, 1088, 9508, 1086, 1088, 9508, 1080, 1088, 9508, 9557, 1088, 9569,
       1053, 1088, 9508, 9557, 1088, 9508, 9488, 1088, 9508, 9619, 1088, 9508, 9563, 1088,
       9508, 1061, 1088, 9569, 1053, 1088, 9508, 1061, 1088, 9569, 1041, 1088, 9508, 1080,
       1088, 9569, 1053, 1088, 9508, 1080, 1088, 9508, 1076, 1088, 9508, 9488, 1088, 9569,
       9564, 32, 1088, 9508, 1082, 1088, 9569, 1053, 1088, 9508, 9617, 1088, 9508, 9570, 1088,
       9569, 1053, 1088, 9508, 1080, 1088, 9508, 1086, 1088, 9569, 1041, 1088, 9508, 1075,
       1088, 9569, 1053, 1088, 9508, 1071, 1088, 9569, 1053, 46, 32, 1088, 9508, 1078, 1088,
       9508, 1087, 1088, 9508, 9569, 1088, 9508, 9563, 1088, 9508, 1087, 1088, 9508, 9488, 32,
       1088, 9508, 9569, 1088, 9569, 1040, 1088, 9508, 1075, 1088, 9569, 1053, 1088, 9508,
       1071, 1088, 9569, 1041, 1088, 9508, 1042, 32, 1088, 9508, 9570, 1088, 9569, 1053, 1088,
       9508, 9617, 1088, 9508, 1086, 1088, 9508, 9488, 1088, 9508, 1061, 1088, 9569, 1053,
       1088, 9508, 1061, 1088, 9569, 1041, 1088, 9508, 1061, 46>>,
  \* pa: 206 characters
    pa |->
       <<1088, 1080, 1086, 1088, 1081, 1048, 1088, 1080, 1080, 1088, 1081, 1042, 1088, 1081,
       9617, 32, 1088, 1080, 9571, 1088, 1081, 1041, 1088, 1080, 1075, 32, 1088, 1080, 1076,
       1088, 1081, 1041, 1088, 1080, 9571, 1088, 1080, 9563, 1088, 1080, 1073, 1088, 1081,
       1040, 32, 1088, 1080, 1063, 1088, 1081, 9618, 1088, 1080, 9619, 32, 1088, 1080, 9557,
       1088, 1080, 1086, 1088, 1080, 1069, 1088, 1080, 1075, 32, 1088, 1080, 9569, 1088, 1080,
       9488, 1088, 1081, 9618, 1088, 1080, 1066, 32, 1088, 1080, 1086, 1088, 1081, 1041, 1088,
       1080, 9557, 1088, 1080, 9565, 1088, 1080, 1061, 1088, 1080, 9619, 32, 1088, 1080, 1046,
       32, 1088, 1080, 9617, 1088, 1080, 9571, 1088, 1081, 1040, 32, 1088, 1080, 9571, 1088,
       1081, 1048, 1088, 1077, 1076, 32, 1088, 1080, 1061, 1088, 1080, 9488, 1088, 1080, 9617,
       1088, 1080, 1082, 1088, 1080, 9563, 32, 1088, 1080, 1061, 1088, 1080, 9617, 1088, 1080,
       1061, 1088, 1081, 1047, 32, 1088, 1080, 1078, 1088, 1081, 1041, 1088, 1080, 1084, 1088,
       1080, 9563, 1088, 1080, 9617, 1088, 1080, 9563, 32, 1088, 1080, 1061, 1088, 1081, 1051,
       1088, 1080, 9557, 1088, 1080, 9565, 1088, 1080, 9488, 1088, 1080, 9557, 1088, 1080,
       9565, 32, 1088, 1080, 1061, 1088, 1080, 9617, 1088, 1081, 1051, 1088, 1077, 1076>>,
  \* en: 75 characters: "I'm having trouble processing that right now. Please try again in a moment."
    en |->
       <<73, 39, 109, 32, 104, 97, 118, 105, 110, 103, 32, 116, 114, 111, 117, 98, 108, 101,
       32, 112, 114, 111, 99, 101, 115, 115, 105, 110, 103, 32, 116, 104, 97, 116, 32, 114,
       105, 103, 104, 116, 32, 110, 111, 119, 46, 32, 80, 108, 101, 97, 115, 101, 32, 116, 114,
       121, 32, 97, 103, 97, 105, 110, 32, 105, 110, 32, 97, 32, 109, 111, 109, 101, 110, 116,
       46>> ]

\* Urgent-resources messages of websocket_endpoint (src/app.py:942-952); each value is the literal's code points.
crisis_messages ==
  \* en: 200 characters
  [ en |->
       <<1025, 1071, 1046, 1064, 32, 73, 39, 109, 32, 100, 101, 101, 112, 108, 121, 32, 99,
       111, 110, 99, 101, 114, 110, 101, 100, 32, 97, 98, 111, 117, 116, 32, 121, 111, 117, 46,
       32, 80, 108, 101, 97, 115, 101, 32, 114, 101, 97, 99, 104, 32, 111, 117, 116, 32, 102,
       111, 114, 32, 105, 109, 109, 101, 100, 105, 97, 116, 101, 32, 104, 101, 108, 112, 58,
       10, 1090, 1040, 1074, 32, 78, 97, 116, 105, 111, 110, 97, 108, 32, 83, 117, 105, 99,
       105, 100, 101, 32, 80, 114, 101, 118, 101, 110, 116, 105, 111, 110, 32, 76, 105, 102,
       101, 108, 105, 110, 101, 58, 32, 57, 56, 56, 10, 1090, 1040, 1074, 32, 67, 114, 105,
       115, 105, 115, 32, 84, 101, 120, 116, 32, 76, 105, 110, 101, 58, 32, 84, 101, 120, 116,
       32, 72, 79, 77, 69, 32, 116, 111, 32, 55, 52, 49, 55, 52, 49, 10, 89, 111, 117, 32, 109,
       97, 116, 116, 101, 114, 44, 32, 97, 110, 100, 32, 112, 101, 111, 112, 108, 101, 32, 99,
       97, 114, 101, 32, 97, 98, 111, 117, 116, 32, 121, 111, 117, 46>>,
  \* hi: 391 characters
    hi |->
       <<1025, 1071, 1046, 1064, 32, 1088, 1076, 1086, 1088, 1077, 1048, 1088, 1076, 1042, 32,
       1088, 1076, 1046, 1088, 1076, 1082, 1088, 1076, 1061, 1088, 1077, 1047, 32, 1088, 1076,
       1084, 1088, 1076, 9563, 1088, 1076, 9617, 1088, 1077, 1047, 32, 1088, 1076, 1086, 1088,
       1077, 1047, 1088, 1076, 1042, 32, 1088, 1076, 1084, 1088, 1076, 9571, 1088, 1077, 1041,
       1088, 1076, 1076, 32, 1088, 1076, 1066, 1088, 1076, 9488, 1088, 1076, 1042, 1088, 1076,
       1076, 1088, 1076, 9488, 1088, 1076, 1076, 32, 1088, 1076, 9571, 1088, 1077, 1042, 1088,
       1076, 1042, 1088, 1077, 1076, 32, 1088, 1076, 1061, 1088, 1077, 1043, 1088, 1076, 1082,
       1088, 1076, 1087, 1088, 1076, 9563, 32, 1088, 1076, 1076, 1088, 1077, 1041, 1088, 1076,
       9617, 1088, 1076, 1042, 1088, 1076, 1076, 32, 1088, 1076, 1086, 1088, 1076, 1078, 1088,
       1076, 1078, 32, 1088, 1076, 9619, 1088, 1077, 1047, 1088, 1076, 1042, 58, 10, 1090,
       1040, 1074, 32, 1088, 1076, 9617, 1088, 1076, 9563, 1088, 1076, 9558, 1088, 1077, 1053,
       1088, 1076, 1071, 1088, 1077, 1053, 1088, 1076, 9617, 1088, 1077, 1040, 1088, 1076,
       1087, 32, 1088, 1076, 1046, 1088, 1076, 1076, 1088, 1077, 1053, 1088, 1076, 1086, 1088,
       1076, 9571, 1088, 1076, 1076, 1088, 1077, 1053, 1088, 1076, 1087, 1088, 1076, 9563, 32,
       1088, 1076, 9617, 1088, 1077, 1051, 1088, 1076, 1061, 1088, 1076, 1077, 1088, 1076,
       9563, 1088, 1076, 1086, 32, 1088, 1076, 9571, 1088, 1077, 1047, 1088, 1076, 9619, 1088,
       1077, 1053, 1088, 1076, 1082, 1088, 1076, 9619, 1088, 1076, 9563, 1088, 1076, 1047,
       1088, 1076, 1080, 58, 32, 57, 49, 53, 50, 57, 56, 55, 56, 50, 49, 10, 1090, 1040, 1074,
       32, 1088, 1076, 1046, 1088, 1076, 1082, 32, 1088, 1076, 1086, 1088, 1076, 9571, 1088,
       1076, 1076, 1088, 1077, 1053, 1088, 1076, 9569, 1088, 1076, 1082, 1088, 1077, 1042,
       1088, 1076, 9617, 1088, 1077, 1053, 1088, 1076, 1075, 32, 1088, 1076, 9571, 1088, 1077,
       1048, 1088, 1076, 1042, 32, 1088, 1076, 1060, 1088, 1076, 9617, 32, 1088, 1076, 9619,
       1088, 1077, 1051, 1088, 1076, 1063, 32, 1088, 1076, 1046, 1088, 1076, 1082, 1088, 1076,
       1061, 1088, 1077, 1040, 32, 1088, 1076, 1082, 1088, 1076, 9617, 1088, 1076, 9569, 1088,
       1076, 9563, 1088, 1076, 9571, 32, 1088, 1076, 1061, 1088, 1076, 9617, 1088, 1076, 1076,
       1088, 1077, 1047, 32, 1088, 1076, 9571, 1088, 1077, 1048, 1088, 1076, 1042, 1088, 1077,
       1076>>,
  \* bn: 439 characters
    bn |->
       <<1025, 1071, 1046, 1064, 32, 1088, 1078, 1046, 1088, 1078, 1086, 1088, 1078, 9488, 32,
       1088, 1078, 1046, 1088, 1078, 1082, 1088, 1078, 1080, 1088, 1078, 9563, 1088, 1078,
       9617, 32, 1088, 1078, 9557, 1088, 1078, 1086, 1088, 1079, 1053, 1088, 1078, 1082, 1088,
       1078, 9617, 1088, 1079, 1053, 1088, 1078, 1061, 1088, 1079, 1047, 32, 1088, 1078, 1063,
       1088, 1078, 1085, 1088, 1079, 1040, 1088, 1078, 9617, 1088, 1078, 1085, 1088, 1078,
       9563, 1088, 1078, 1084, 1088, 1079, 1047, 32, 1088, 1078, 1049, 1088, 1078, 1078, 1088,
       1079, 1053, 1088, 1078, 1084, 1088, 1078, 9488, 1088, 1078, 1063, 1088, 1079, 1053,
       1088, 1078, 1080, 1088, 1077, 1076, 32, 1088, 1078, 1045, 1088, 1078, 1080, 1088, 1079,
       1041, 1088, 1078, 1063, 1088, 1079, 1053, 1088, 1078, 9617, 1088, 1078, 9571, 32, 1088,
       1078, 1061, 1088, 1078, 9617, 1088, 1079, 1047, 32, 1088, 1078, 1045, 1088, 1078, 1084,
       1088, 1078, 9488, 1088, 1078, 9619, 1088, 1078, 1086, 1088, 1079, 1053, 1088, 1078,
       1084, 1088, 1079, 1047, 32, 1088, 1078, 9557, 1088, 1078, 9563, 1088, 1078, 9571, 1088,
       1078, 9563, 1088, 1078, 1087, 1088, 1079, 1053, 1088, 1078, 1087, 32, 1088, 1078, 1080,
       1088, 1078, 9488, 1088, 1078, 1080, 58, 10, 1090, 1040, 1074, 32, 1088, 1078, 1068,
       1088, 1078, 9563, 1088, 1078, 1076, 1088, 1079, 1040, 1088, 1078, 1087, 1088, 1078,
       9565, 32, 1088, 1078, 1046, 1088, 1078, 1076, 1088, 1079, 1053, 1088, 1078, 1086, 1088,
       1078, 9571, 1088, 1078, 1076, 1088, 1079, 1053, 1088, 1078, 1087, 1088, 1078, 9563, 32,
       1088, 1078, 1082, 1088, 1079, 1053, 1088, 1078, 9617, 1088, 1078, 1076, 1088, 1078,
       9488, 1088, 1078, 9617, 1088, 1079, 1051, 1088, 1078, 1079, 32, 1088, 1078, 9571, 1088,
       1079, 1047, 1088, 1078, 9619, 1088, 1079, 1053, 1088, 1078, 1082, 1088, 1078, 9619,
       1088, 1078, 9563, 1088, 1078, 1047, 1088, 1078, 1080, 58, 32, 57, 49, 53, 50, 57, 56,
       55, 56, 50, 49, 10, 1090, 1040, 1074, 32, 1088, 1078, 1046, 1088, 1078, 1082, 1088,
       1078, 1080, 1088, 1078, 9488, 32, 1088, 1078, 1063, 1088, 1079, 1041, 1088, 1078, 9617,
       1088, 1079, 1041, 1088, 1078, 1076, 1088, 1079, 1053, 1088, 1078, 1084, 1088, 1078,
       1082, 1088, 1079, 1042, 1088, 1078, 9617, 1088, 1079, 1053, 1088, 1078, 1075, 32, 1088,
       1078, 1055, 1088, 1078, 1084, 1088, 1078, 1042, 32, 1088, 1078, 1086, 1088, 1078, 9563,
       1088, 1078, 1080, 1088, 1079, 1041, 1088, 1078, 9558, 32, 1088, 1078, 1046, 1088, 1078,
       1082, 1088, 1078, 1080, 1088, 1078, 9563, 1088, 1078, 9617, 32, 1088, 1078, 1087, 1088,
       1078, 1076, 1088, 1079, 1053, 1088, 1078, 1080, 32, 1088, 1078, 1080, 1088, 1079, 1047,
       1088, 1078, 1087, 1088, 1078, 9565, 1088, 1077, 1076>>,
  \* ta: 459 characters
    ta |->
       <<1025, 1071, 1046, 1064, 32, 1088, 1086, 1080, 1088, 1086, 9563, 1088, 1086, 1081,
       1088, 1087, 1053, 32, 1088, 1086, 1049, 1088, 1086, 1065, 1088, 1087, 1053, 1088, 1086,
       1061, 1088, 1086, 9474, 1088, 1087, 1048, 1088, 1086, 1082, 1088, 1087, 1053, 32, 1088,
       1086, 1082, 1088, 1086, 9618, 1088, 1087, 1053, 1088, 1086, 9618, 1088, 1086, 9488, 32,
       1088, 1086, 1086, 1088, 1086, 9488, 1088, 1086, 1061, 1088, 1086, 9569, 1088, 1087,
       1041, 1088, 1086, 1086, 1088, 1087, 1053, 32, 1088, 1086, 1061, 1088, 1086, 9569, 1088,
       1086, 9619, 1088, 1087, 1048, 1088, 1086, 1082, 1088, 1087, 1053, 1088, 1086, 1082,
       1088, 1086, 1071, 1088, 1087, 1041, 1088, 1086, 1061, 1088, 1086, 9488, 1088, 1086,
       9618, 1088, 1087, 1047, 1088, 1086, 1081, 1088, 1087, 1053, 46, 32, 1088, 1086, 1049,
       1088, 1086, 1071, 1088, 1086, 1081, 1088, 1086, 1071, 1088, 1086, 9488, 1088, 1086,
       1087, 1088, 1086, 9563, 1088, 1086, 1061, 32, 1088, 1086, 1049, 1088, 1086, 1076, 1088,
       1086, 9569, 1088, 1086, 9488, 32, 1088, 1086, 1082, 1088, 1087, 1046, 1088, 1086, 9618,
       1088, 1087, 1041, 1088, 1086, 1065, 1088, 1087, 1053, 1088, 1086, 1061, 1088, 1086,
       9474, 1088, 1087, 1053, 58, 10, 1090, 1040, 1074, 32, 1088, 1086, 1076, 1088, 1087,
       1047, 1088, 1086, 1066, 1088, 1086, 9488, 1088, 1086, 1087, 32, 1088, 1086, 1076, 1088,
       1086, 9618, 1088, 1087, 1053, 1088, 1086, 1061, 1088, 1087, 1050, 1088, 1086, 9619,
       1088, 1087, 1048, 32, 1088, 1086, 1076, 1088, 1086, 1071, 1088, 1087, 1041, 1088, 1086,
       1082, 1088, 1087, 1053, 1088, 1086, 1082, 1088, 1087, 1041, 32, 1088, 1086, 9571, 1088,
       1087, 1046, 1088, 1086, 9619, 1088, 1087, 1053, 1088, 1086, 1082, 1088, 1087, 1053,
       1088, 1086, 9619, 1088, 1087, 1048, 1088, 1086, 1081, 1088, 1087, 1053, 58, 32, 57, 49,
       53, 50, 57, 56, 55, 56, 50, 49, 10, 1090, 1040, 1074, 32, 1088, 1086, 1080, 1088, 1087,
       1040, 1088, 1086, 1065, 1088, 1087, 1053, 1088, 1086, 1061, 1088, 1086, 9474, 1088,
       1087, 1053, 32, 1088, 1086, 1086, 1088, 1087, 1041, 1088, 1086, 1061, 1088, 1087, 1053,
       1088, 1086, 1061, 1088, 1086, 9488, 1088, 1086, 1087, 1088, 1086, 1086, 1088, 1086,
       9563, 1088, 1086, 1081, 1088, 1086, 9569, 1088, 1086, 9617, 1088, 1087, 1053, 44, 32,
       1088, 1086, 1086, 1088, 1086, 1061, 1088, 1087, 1053, 1088, 1086, 1061, 1088, 1086,
       9474, 1088, 1087, 1053, 32, 1088, 1086, 1049, 1088, 1086, 1065, 1088, 1087, 1053, 1088,
       1086, 1061, 1088, 1086, 9474, 1088, 1087, 1048, 1088, 1086, 1061, 1088, 1087, 1053, 32,
       1088, 1086, 1061, 1088, 1086, 9569, 1088, 1086, 1081, 1088, 1086, 9488, 1088, 1086,
       1061, 1088, 1087, 1053, 1088, 1086, 1061, 1088, 1086, 9488, 1088, 1086, 9618, 1088,
       1086, 9563, 1088, 1086, 9617, 1088, 1087, 1053, 1088, 1086, 1061, 1088, 1086, 9474,
       1088, 1087, 1053, 46>>,
  \* te: 445 characters
    te |->
       <<1025, 1071, 1046, 1064, 32, 1088, 9617, 1080, 1088, 9618, 1047, 1088, 9617, 1080,
       1088, 9618, 1041, 32, 1088, 9617, 1086, 1088, 9618, 1040, 32, 1088, 9617, 1063, 1088,
       9618, 1041, 1088, 9617, 9617, 1088, 9617, 9488, 1088, 9617, 1042, 1088, 9617, 1066,
       1088, 9617, 9488, 32, 1088, 9617, 1066, 1088, 9617, 9563, 1088, 9617, 9619, 1088, 9617,
       9563, 32, 1088, 9617, 1046, 1088, 9617, 1042, 1088, 9617, 1078, 1088, 9618, 1051, 1088,
       9617, 9474, 1088, 9617, 1080, 32, 1088, 9617, 1066, 1088, 9618, 1046, 1088, 9617, 1042,
       1088, 9617, 1078, 1088, 9618, 1041, 1088, 9617, 1076, 1088, 9618, 1041, 1088, 9617,
       1080, 1088, 9618, 1053, 1088, 9617, 1080, 1088, 9617, 9563, 1088, 9617, 1080, 1088,
       9618, 1041, 1088, 1077, 1076, 32, 1088, 9617, 1078, 1088, 9617, 1087, 1088, 9617, 1066,
       1088, 9618, 1047, 1088, 9617, 9557, 1088, 9617, 9488, 32, 1088, 9617, 9569, 1088, 9618,
       1046, 1088, 9617, 1042, 1088, 9617, 1071, 1088, 9617, 1080, 1088, 9618, 1047, 32, 1088,
       9617, 9557, 1088, 9617, 9571, 1088, 9617, 9563, 1088, 9617, 1087, 1088, 9617, 1042, 32,
       1088, 9617, 1076, 1088, 9618, 1040, 1088, 9617, 9557, 1088, 9618, 1041, 1088, 9617,
       1061, 1088, 9618, 1051, 1088, 9617, 1042, 1088, 9617, 1073, 1088, 9617, 9488, 58, 10,
       1090, 1040, 1074, 32, 1088, 9617, 1068, 1088, 9617, 9563, 1088, 9617, 1076, 1088, 9618,
       1040, 1088, 9617, 1087, 32, 1088, 9617, 1046, 1088, 9617, 1076, 1088, 9618, 1053, 1088,
       9617, 1086, 1088, 9617, 9571, 1088, 9617, 1076, 1088, 9618, 1053, 1088, 9617, 1087, 32,
       1088, 9617, 1080, 1088, 9617, 9488, 1088, 9617, 9617, 1088, 9618, 1051, 1088, 9617,
       1079, 1088, 9617, 1061, 32, 1088, 9617, 9571, 1088, 9618, 1046, 1088, 9617, 9619, 1088,
       9618, 1053, 1088, 9617, 1082, 1088, 9618, 1053, 1090, 1040, 1052, 1088, 9617, 9619,
       1088, 9618, 1048, 1088, 9617, 1080, 1088, 9618, 1053, 58, 32, 57, 49, 53, 50, 57, 56,
       55, 56, 50, 49, 10, 1090, 1040, 1074, 32, 1088, 9617, 1086, 1088, 9618, 1040, 1088,
       9617, 9617, 1088, 9618, 1041, 32, 1088, 9617, 1086, 1088, 9618, 1041, 1088, 9617, 1062,
       1088, 9618, 1053, 1088, 9617, 1087, 1088, 9617, 1042, 44, 32, 1088, 9617, 1082, 1088,
       9618, 1053, 1088, 9617, 9617, 1088, 9617, 1068, 1088, 9617, 9619, 1088, 9618, 1041, 32,
       1088, 9617, 1086, 1088, 9617, 9488, 1088, 9617, 1086, 1088, 9618, 1053, 1088, 9617,
       1086, 1088, 9617, 9619, 1088, 9618, 1053, 1088, 9617, 1080, 1088, 9617, 9488, 32, 1088,
       9617, 1082, 1088, 9617, 1071, 1088, 9618, 1053, 1088, 9617, 1071, 1088, 9617, 9488,
       1088, 9617, 1042, 1088, 9617, 1066, 1088, 9618, 1041, 1088, 9617, 1061, 1088, 9618,
       1041, 1088, 9617, 1042, 1088, 9617, 1071, 1088, 9617, 9563, 1088, 9617, 9617, 1088,
       9618, 1041, 46>>,
  \* gu: 403 characters
    gu |->
       <<1025, 1071, 1046, 1064, 32, 1088, 1082, 9571, 1088, 1083, 1041, 1088, 1082, 1042, 32,
       1088, 1082, 1076, 1088, 1082, 1086, 1088, 1082, 9563, 1088, 1082, 9617, 1088, 1082,
       9563, 32, 1088, 1082, 9569, 1088, 1082, 9488, 1088, 1082, 9570, 1088, 1083, 1047, 32,
       1088, 1082, 1062, 1088, 1083, 1042, 1088, 1082, 1084, 32, 1088, 1082, 1068, 32, 1088,
       1082, 1066, 1088, 1082, 9488, 1088, 1082, 1042, 1088, 1082, 1076, 1088, 1082, 9488,
       1088, 1082, 1076, 32, 1088, 1082, 1067, 1088, 1083, 1041, 1088, 1082, 1042, 46, 32,
       1088, 1082, 1061, 1088, 1083, 1043, 1088, 1082, 1082, 1088, 1082, 9563, 32, 1088, 1082,
       1061, 1088, 1082, 9617, 1088, 1083, 1040, 1088, 1082, 1080, 1088, 1083, 1047, 32, 1088,
       1082, 1076, 1088, 1082, 9563, 1088, 1082, 1076, 1088, 1083, 1053, 1088, 1082, 1061,
       1088, 1082, 9563, 1088, 1082, 9619, 1088, 1082, 9488, 1088, 1082, 1061, 32, 1088, 1082,
       1086, 1088, 1082, 1078, 1088, 1082, 1078, 32, 1088, 1082, 9619, 1088, 1083, 1051, 58,
       10, 1090, 1040, 1074, 32, 1088, 1082, 9617, 1088, 1082, 9563, 1088, 1082, 9558, 1088,
       1083, 1053, 1088, 1082, 1071, 1088, 1083, 1053, 1088, 1082, 9617, 1088, 1083, 1040,
       1088, 1082, 1087, 32, 1088, 1082, 1046, 1088, 1082, 1076, 1088, 1083, 1053, 1088, 1082,
       1086, 1088, 1082, 9571, 1088, 1082, 1076, 1088, 1083, 1053, 1088, 1082, 1087, 1088,
       1082, 9563, 32, 1088, 1082, 1080, 1088, 1082, 9488, 1088, 1082, 9569, 1088, 1082, 9563,
       1088, 1082, 9617, 1088, 1082, 1075, 32, 1088, 1082, 9571, 1088, 1083, 1047, 1088, 1082,
       9619, 1088, 1083, 1053, 1088, 1082, 1082, 1088, 1082, 9619, 1088, 1082, 9563, 1088,
       1082, 1047, 1088, 1082, 1080, 58, 32, 57, 49, 53, 50, 57, 56, 55, 56, 50, 49, 10, 1090,
       1040, 1074, 32, 1088, 1082, 1076, 1088, 1082, 1086, 1088, 1083, 1047, 32, 1088, 1082,
       1086, 1088, 1082, 9571, 1088, 1082, 1076, 1088, 1083, 1053, 1088, 1082, 9569, 1088,
       1082, 1082, 1088, 1083, 1042, 1088, 1082, 9617, 1088, 1083, 1053, 1088, 1082, 1075, 32,
       1088, 1082, 1067, 1088, 1083, 1051, 32, 1088, 1082, 1045, 1088, 1082, 1080, 1088, 1083,
       1047, 32, 1088, 1082, 9619, 1088, 1083, 1051, 1088, 1082, 1061, 1088, 1083, 1051, 32,
       1088, 1082, 1076, 1088, 1082, 1086, 1088, 1082, 9563, 1088, 1082, 9617, 1088, 1083,
       1040, 32, 1088, 1082, 1061, 1088, 1082, 9563, 1088, 1082, 9474, 1088, 1082, 1068, 1088,
       1083, 1040, 32, 1088, 1082, 9619, 1088, 1083, 1047, 32, 1088, 1082, 1067, 1088, 1083,
       1047, 46>>,
  \* kn: 441 characters
    kn |->
       <<1025, 1071, 1046, 1064, 32, 1088, 9619, 1080, 1088, 9619, 9563, 1088, 9619, 1080,
       1088, 9474, 1041, 32, 1088, 9619, 1080, 1088, 9619, 9488, 1088, 9619, 1086, 1088, 9474,
       1053, 1088, 9619, 1086, 32, 1088, 9619, 1084, 1088, 9619, 1063, 1088, 9474, 1053, 1088,
       9619, 1063, 1088, 9474, 1046, 32, 1088, 9619, 1076, 1088, 9474, 1041, 1088, 9619, 1042,
       1088, 9619, 1084, 1088, 9619, 9563, 32, 1088, 9619, 1061, 1088, 9619, 9563, 1088, 9619,
       9474, 1088, 9619, 1068, 1088, 9619, 9488, 32, 1088, 9619, 9569, 1088, 9619, 9571, 1088,
       9619, 9488, 1088, 9619, 9557, 1088, 9474, 1041, 1088, 9619, 1076, 1088, 9474, 1053,
       1088, 9619, 1076, 1088, 9619, 9488, 1088, 9619, 1078, 1088, 9474, 1053, 1088, 9619,
       1078, 1088, 9474, 1047, 1088, 9619, 1080, 1088, 9474, 1046, 46, 32, 1088, 9619, 1078,
       1088, 9619, 1087, 1088, 9619, 9569, 1088, 9619, 9488, 1088, 9619, 1071, 1088, 9474,
       1053, 1088, 9619, 1071, 1088, 9474, 1041, 32, 1088, 9619, 1076, 1088, 9619, 1061, 1088,
       9474, 1053, 1088, 9619, 9558, 1088, 9619, 1075, 1088, 9619, 9569, 1088, 9474, 1047, 32,
       1088, 9619, 9557, 1088, 9619, 9571, 1088, 9619, 9563, 1088, 9619, 1087, 32, 1088, 9619,
       1082, 1088, 9619, 1073, 1088, 9474, 1046, 1088, 9619, 1087, 1088, 9619, 9488, 1088,
       9619, 9617, 1088, 9619, 9488, 58, 10, 1090, 1040, 1074, 32, 1088, 9619, 9617, 1088,
       9619, 9563, 1088, 9619, 9558, 1088, 9474, 1053, 1088, 9619, 1071, 1088, 9474, 1053,
       1088, 9619, 9617, 1088, 9474, 1040, 1088, 9619, 1087, 32, 1088, 9619, 1046, 1088, 9619,
       1076, 1088, 9474, 1053, 1088, 9619, 1086, 1088, 9619, 9571, 1088, 9619, 1076, 1088,
       9474, 1053, 1088, 9619, 1087, 1088, 9474, 1046, 32, 1088, 9619, 1076, 1088, 9619, 1073,
       1088, 9474, 1046, 32, 1088, 9619, 9571, 1088, 9474, 1046, 1088, 9619, 9619, 1088, 9474,
       1053, 1088, 9619, 1082, 1088, 9474, 1053, 1090, 1040, 1052, 1088, 9619, 9619, 1088,
       9474, 1048, 1088, 9619, 1080, 1088, 9474, 1053, 58, 32, 57, 49, 53, 50, 57, 56, 55, 56,
       50, 49, 10, 1090, 1040, 1074, 32, 1088, 9619, 1080, 1088, 9474, 1040, 1088, 9619, 9569,
       1088, 9474, 1041, 32, 1088, 9619, 1086, 1088, 9474, 1041, 1088, 9619, 1062, 1088, 9474,
       1053, 1088, 9619, 1087, 44, 32, 1088, 9619, 1068, 1088, 9619, 1080, 1088, 9619, 9617,
       1088, 9474, 1041, 32, 1088, 9619, 1080, 1088, 9619, 9488, 1088, 9619, 1086, 1088, 9474,
       1053, 1088, 9619, 1086, 32, 1088, 9619, 1061, 1088, 9619, 9563, 1088, 9619, 9474, 1088,
       9619, 1068, 1088, 9619, 9488, 32, 1088, 9619, 9569, 1088, 9619, 9571, 1088, 9619, 9488,
       1088, 9619, 9557, 1088, 9474, 1041, 1088, 9619, 1076, 1088, 9474, 1053, 1088, 9619,
       1076, 1088, 9619, 9563, 1088, 9619, 9617, 1088, 9474, 1046, 46>>,
  \* ml: 441 characters
    ml |->
       <<1025, 1071, 1046, 1064, 32, 1088, 9508, 1070, 1088, 9508, 9563, 1088, 9569, 9559, 32,
       1088, 9508, 1080, 1088, 9508, 9488, 1088, 9508, 1065, 1088, 9569, 1053, 1088, 9508,
       1065, 1088, 9508, 9474, 1088, 9569, 1046, 1088, 9508, 1061, 1088, 9569, 1053, 1088,
       9508, 1061, 1088, 9569, 1041, 1088, 9508, 9618, 1088, 9508, 9488, 1088, 9508, 1066,
       1088, 9569, 1053, 1088, 9508, 1066, 1088, 9569, 1053, 32, 1088, 9508, 1046, 1088, 9508,
       9508, 1088, 9508, 1076, 1088, 9569, 1053, 1088, 9508, 1076, 1088, 9508, 9488, 1088,
       9569, 9564, 32, 1088, 9508, 1046, 1088, 9508, 9570, 1088, 9508, 1065, 1088, 9569, 1053,
       1088, 9508, 1061, 1088, 9508, 1082, 1088, 9569, 1053, 1088, 9508, 1082, 1088, 9569,
       1046, 1088, 9508, 1071, 1088, 9569, 1041, 1088, 9508, 1080, 1088, 9569, 1053, 1088,
       9508, 1080, 1088, 9569, 1041, 46, 32, 1088, 9508, 1078, 1088, 9508, 1087, 1088, 9508,
       9569, 1088, 9508, 9563, 1088, 9508, 1087, 1088, 9508, 9488, 32, 1088, 9508, 1049, 1088,
       9508, 1071, 1088, 9508, 1080, 1088, 9508, 1071, 1088, 9508, 9488, 32, 1088, 9508, 9557,
       1088, 9508, 9571, 1088, 9508, 9563, 1088, 9508, 1087, 1088, 9508, 1042, 32, 1088, 9508,
       1076, 1088, 9569, 1047, 1088, 9508, 1071, 1088, 9569, 1041, 1088, 9508, 1061, 58, 10,
       1090, 1040, 1074, 32, 1088, 9508, 1078, 1088, 9569, 1047, 1088, 9508, 9570, 1088, 9569,
       1040, 1088, 9508, 1087, 32, 1088, 9508, 1046, 1088, 9508, 1076, 1088, 9569, 1053, 1088,
       9508, 1086, 1088, 9508, 9571, 1088, 9508, 1076, 1088, 9569, 1053, 1088, 9508, 1087,
       1088, 9508, 9563, 32, 1088, 9508, 1076, 1088, 9508, 1071, 1088, 9508, 1087, 1088, 9569,
       9564, 32, 1088, 9508, 9571, 1088, 9569, 1046, 1088, 9569, 9564, 1088, 9508, 1082, 1088,
       9569, 1053, 1088, 9508, 9619, 1088, 9569, 1048, 1088, 9569, 9559, 58, 32, 57, 49, 53,
       50, 57, 56, 55, 56, 50, 49, 10, 1090, 1040, 1074, 32, 1088, 9508, 1080, 1088, 9508,
       9488, 1088, 9508, 1065, 1088, 9569, 1053, 1088, 9508, 1065, 1088, 9569, 9563, 32, 1088,
       9508, 1082, 1088, 9569, 1053, 1088, 9508, 9617, 1088, 9508, 1079, 1088, 9508, 9563,
       1088, 9508, 1080, 1088, 9508, 1086, 1088, 9508, 9563, 1088, 9508, 1075, 1088, 9569,
       1053, 44, 32, 1088, 9508, 1046, 1088, 9508, 9474, 1088, 9569, 1041, 1088, 9508, 1061,
       1088, 9569, 9563, 32, 1088, 9508, 1080, 1088, 9508, 9488, 1088, 9508, 1065, 1088, 9569,
       1053, 1088, 9508, 1065, 1088, 9508, 9474, 1088, 9569, 1046, 32, 1088, 9508, 1082, 1088,
       9508, 9617, 1088, 9508, 9488, 1088, 9508, 1082, 1088, 9508, 9563, 1088, 9508, 9619,
       1088, 9508, 9488, 1088, 9508, 1061, 1088, 9569, 1053, 1088, 9508, 1061, 1088, 9569,
       1041, 1088, 9508, 1080, 1088, 9569, 1053, 1088, 9508, 1080, 1088, 9569, 1041, 46>>,
  \* pa: 392 characters
    pa |->
       <<1025, 1071, 1046, 1064, 32, 1088, 1080, 1086, 1088, 1081, 1048, 1088, 1080, 1042, 32,
       1088, 1080, 1076, 1088, 1081, 1041, 1088, 1080, 9571, 1088, 1080, 9563, 1088, 1080,
       1073, 1088, 1081, 1047, 32, 1088, 1080, 1084, 1088, 1080, 9563, 1088, 1080, 9617, 1088,
       1081, 1047, 32, 1088, 1080, 1084, 1088, 1080, 9571, 1088, 1081, 1041, 1088, 1080, 1076,
       32, 1088, 1080, 1066, 1088, 1080, 9488, 1088, 1081, 9617, 1088, 1080, 1076, 1088, 1080,
       1076, 32, 1088, 1080, 9571, 1088, 1080, 9563, 1088, 1080, 1042, 1088, 1077, 1076, 32,
       1088, 1080, 1061, 1088, 1080, 9488, 1088, 1080, 9617, 1088, 1080, 1082, 1088, 1080,
       9563, 32, 1088, 1080, 1061, 1088, 1080, 9617, 1088, 1080, 1061, 1088, 1081, 1047, 32,
       1088, 1080, 1076, 1088, 1081, 1041, 1088, 1080, 9617, 1088, 1081, 9617, 1088, 1080,
       1076, 32, 1088, 1080, 1086, 1088, 1080, 1078, 1088, 1080, 1078, 32, 1088, 1080, 9619,
       1088, 1080, 1059, 58, 10, 1090, 1040, 1074, 32, 1088, 1080, 9617, 1088, 1080, 9563,
       1088, 1080, 9557, 1088, 1080, 9565, 1088, 1080, 1071, 1088, 1080, 9617, 1088, 1081,
       1040, 32, 1088, 1080, 1046, 1088, 1080, 1076, 1088, 1080, 1086, 45, 1088, 1080, 9571,
       1088, 1081, 9618, 1088, 1080, 1076, 1088, 1080, 9488, 1088, 1080, 1046, 32, 1088, 1080,
       9617, 1088, 1081, 1051, 1088, 1080, 1061, 1088, 1080, 1077, 1088, 1080, 9563, 1088,
       1080, 1086, 32, 1088, 1080, 9571, 1088, 1081, 1048, 1088, 1080, 9619, 1088, 1080, 1082,
       1088, 1080, 9619, 1088, 1080, 9563, 1088, 1080, 1048, 1088, 1080, 1080, 58, 32, 57, 49,
       53, 50, 57, 56, 55, 56, 50, 49, 10, 1090, 1040, 1074, 32, 1088, 1080, 1076, 1088, 1081,
       1041, 1088, 1080, 9557, 1088, 1081, 1040, 1088, 1080, 1042, 32, 1088, 1080, 1086, 1088,
       1080, 9571, 1088, 1081, 9618, 1088, 1080, 1076, 1088, 1080, 9569, 1088, 1080, 1082,
       1088, 1081, 1042, 1088, 1080, 9617, 1088, 1080, 1080, 32, 1088, 1080, 9571, 1088, 1081,
       1051, 32, 1088, 1080, 1045, 1088, 1080, 1076, 1088, 1081, 1047, 32, 1088, 1080, 9619,
       1088, 1081, 1051, 1088, 1080, 1061, 32, 1088, 1080, 1076, 1088, 1081, 1041, 1088, 1080,
       9571, 1088, 1080, 9563, 1088, 1080, 1073, 1088, 1081, 1040, 32, 1088, 1080, 1082, 1088,
       1080, 9617, 1088, 1080, 9569, 1088, 1080, 9563, 1088, 1080, 9571, 32, 1088, 1080, 1061,
       1088, 1080, 9617, 1088, 1080, 1078, 1088, 1081, 1047, 32, 1088, 1080, 9571, 1088, 1080,
       1080, 1088, 1077, 1076>> ]

\* Connection-trouble messages of websocket_endpoint (src/app.py:968-972); each value is the literal's code points.
fallback_msgs ==
  \* en: 47 characters: "I'm having connection issues. Please try again."
  [ en |->
       <<73, 39, 109, 32, 104, 97, 118, 105, 110, 103, 32, 99, 111, 110, 110, 101, 99, 116,
       105, 111, 110, 32, 105, 115, 115, 117, 101, 115, 46, 32, 80, 108, 101, 97, 115, 101, 32,
       116, 114, 121, 32, 97, 103, 97, 105, 110, 46>>,
  \* hi: 138 characters
    hi |->
       <<1088, 1076, 1086, 1088, 1077, 1041, 1088, 1076, 1069, 1088, 1077, 1047, 32, 1088,
       1076, 1061, 1088, 1076, 1080, 1088, 1077, 1047, 1088, 1076, 1061, 1088, 1077, 1053,
       1088, 1076, 9570, 1088, 1076, 1080, 32, 1088, 1076, 1086, 1088, 1077, 1047, 1088, 1076,
       1042, 32, 1088, 1076, 9557, 1088, 1076, 1086, 1088, 1076, 9557, 1088, 1077, 1053, 1088,
       1076, 1087, 1088, 1076, 9563, 32, 1088, 1076, 9571, 1088, 1077, 1048, 1088, 1077, 1076,
       32, 1088, 1076, 1061, 1088, 1077, 1043, 1088, 1076, 1082, 1088, 1076, 1087, 1088, 1076,
       9563, 32, 1088, 1076, 1083, 1088, 1076, 9488, 1088, 1076, 9617, 32, 1088, 1076, 9557,
       1088, 1077, 1047, 32, 1088, 1076, 1061, 1088, 1077, 1051, 1088, 1076, 9570, 1088, 1076,
       9488, 1088, 1076, 9570, 32, 1088, 1076, 1061, 1088, 1076, 9617, 1088, 1077, 1047, 1088,
       1076, 1042, 1088, 1077, 1076>>,
  \* bn: 149 characters
    bn |->
       <<1088, 1078, 1046, 1088, 1078, 1086, 1088, 1078, 9563, 1088, 1078, 9617, 32, 1088,
       1078, 9557, 1088, 1078, 1042, 1088, 1078, 1087, 1088, 1079, 1051, 1088, 1078, 1063,
       1088, 1079, 1047, 32, 1088, 1078, 9557, 1088, 1078, 1086, 1088, 1078, 9557, 1088, 1079,
       1053, 1088, 1078, 1087, 1088, 1078, 9563, 32, 1088, 1078, 9571, 1088, 1078, 1066, 1088,
       1079, 1053, 1088, 1078, 1067, 1088, 1079, 1047, 1088, 1077, 1076, 32, 1088, 1078, 1045,
       1088, 1078, 1080, 1088, 1079, 1041, 1088, 1078, 1063, 1088, 1079, 1053, 1088, 1078,
       9617, 1088, 1078, 9571, 32, 1088, 1078, 1061, 1088, 1078, 9617, 1088, 1079, 1047, 32,
       1088, 1078, 1046, 1088, 1078, 1084, 1088, 1078, 9563, 1088, 1078, 9617, 32, 1088, 1078,
       1066, 1088, 1079, 1047, 1088, 1078, 9558, 1088, 1079, 1053, 1088, 1078, 1071, 1088,
       1078, 9563, 32, 1088, 1078, 1061, 1088, 1078, 9617, 1088, 1079, 1041, 1088, 1078, 1080,
       1088, 1077, 1076>> ]

(***************************************************************************)
(* Python string primitives, on sequences of code points.                  *)
(***************************************************************************)

\* Python's None (the value of a missing language hint, of the global
\* genai_client before load_models ran, of a function without a return).
None == "<None>"

\* str.lower() of one character, as a string: Basic Latin A-Z and Cyrillic
\* U+0400-U+042F map to their lower-case letters, U+0130 maps to the two
\* characters "i" + U+0307, every other character used here is unchanged.
LowerChar(c) ==
  IF c >= 65 /\ c <= 90 THEN <<c + 32>>
  ELSE IF c >= 1040 /\ c <= 1071 THEN <<c + 32>>
  ELSE IF c >= 1024 /\ c <= 1039 THEN <<c + 80>>
  ELSE IF c = 304 THEN <<105, 775>>
  ELSE <<c>>

RECURSIVE lower(_)
\* str.lower(): the concatenation of the characters' lower-case forms.
lower(s) ==
  IF s = <<>> THEN <<>> ELSE LowerChar(Head(s)) \o lower(Tail(s))

\* Python's `k in t` for strings: k occurs in t as a contiguous substring.
In(k, t) ==
  \E i \in 0..(Len(t) - Len(k)) : \A j \in 1..Len(k) : t[i + j] = k[j]

\* str.isspace() of one character: the characters str.split() and
\* str.strip() treat as whitespace.
IsSpace(c) ==
  \/ c \in {9, 10, 11, 12, 13, 28, 29, 30, 31, 32, 133, 160, 5760}
  \/ (c >= 8192 /\ c <= 8202)
  \/ c \in {8232, 8233, 8239, 8287, 12288}

RECURSIVE lstrip(_)
lstrip(s) ==
  IF s # <<>> /\ IsSpace(Head(s)) THEN lstrip(Tail(s)) ELSE s

RECURSIVE rstrip(_)
rstrip(s) ==
  IF s # <<>> /\ IsSpace(s[Len(s)]) THEN rstrip(SubSeq(s, 1, Len(s) - 1)) ELSE s

\* str.strip(): leading and trailing whitespace removed.
strip(s) == rstrip(lstrip(s))

RECURSIVE SplitFrom(_, _, _)
\* Scans s from position i with the current word w; yields the words.
SplitFrom(s, i, w) ==
  IF i > Len(s) THEN (IF w = <<>> THEN <<>> ELSE <<w>>)
  ELSE IF IsSpace(s[i])
       THEN (IF w = <<>> THEN <<>> ELSE <<w>>) \o SplitFrom(s, i + 1, <<>>)
       ELSE SplitFrom(s, i + 1, Append(w, s[i]))

\* str.split() with no argument: the maximal runs of non-whitespace.
split(s) == SplitFrom(s, 1, <<>>)

\* any(lo <= char <= hi for char in text)
HasCharIn(text, lo, hi) ==
  \E i \in 1..Len(text) : lo <= text[i] /\ text[i] <= hi

(***************************************************************************)
(* Language Classifier and Crisis Detector.                                *)
(***************************************************************************)

\* The supported tags, in the insertion order of crisis_keywords.
LangOrder == <<"en", "hi", "bn", "ta", "te", "gu", "kn", "ml", "pa">>

LangTags == {LangOrder[i] : i \in 1..Len(LangOrder)}

\* dict.get(key, default) on a table modelled as a record.
Get(table, key, default) ==
  IF key \in DOMAIN table THEN table[key] ELSE default

\* Variant that decides by position: the script of the first character
\* that lies in a supported block wins.
detect_language_from_text_by_position(text) ==
  LET TagOf(c) ==
        IF c >= 2304 /\ c <= 2431 THEN "hi"
        ELSE IF c >= 2432 /\ c <= 2559 THEN "bn"
        ELSE IF c >= 2944 /\ c <= 3071 THEN "ta"
        ELSE IF c >= 3072 /\ c <= 3199 THEN "te"
        ELSE IF c >= 2688 /\ c <= 2815 THEN "gu"
        ELSE IF c >= 3200 /\ c <= 3327 THEN "kn"
        ELSE IF c >= 3328 /\ c <= 3455 THEN "ml"
        ELSE IF c >= 2560 /\ c <= 2687 THEN "pa"
        ELSE "en"
      hits == { i \in 1..Len(text) : TagOf(text[i]) # "en" }
  IN  IF hits = {} THEN "en"
      ELSE TagOf(text[CHOOSE i \in hits : \A j \in hits : i <= j])

\* Variant without the final `return "en"`: the function falls off its end.
detect_language_from_text_no_default(text) ==
  IF text = <<>> THEN "en"
  ELSE IF HasCharIn(text, 2304, 2431) THEN "hi"
  ELSE IF HasCharIn(text, 2432, 2559) THEN "bn"
  ELSE IF HasCharIn(text, 2944, 3071) THEN "ta"
  ELSE IF HasCharIn(text, 3072, 3199) THEN "te"
  ELSE IF HasCharIn(text, 2688, 2815) THEN "gu"
  ELSE IF HasCharIn(text, 3200, 3327) THEN "kn"
  ELSE IF HasCharIn(text, 3328, 3455) THEN "ml"
  ELSE IF HasCharIn(text, 2560, 2687) THEN "pa"
  ELSE None

detect_language_from_text(text) ==
  IF text = <<>> THEN "en"
  ELSE IF HasCharIn(text, 2304, 2431) THEN "hi"   \* U+0900-U+097F
  ELSE IF HasCharIn(text, 2432, 2559) THEN "bn"   \* U+0980-U+09FF
  ELSE IF HasCharIn(text, 2944, 3071) THEN "ta"   \* U+0B80-U+0BFF
  ELSE IF HasCharIn(text, 3072, 3199) THEN "te"   \* U+0C00-U+0C7F
  ELSE IF HasCharIn(text, 2688, 2815) THEN "gu"   \* U+0A80-U+0AFF
  ELSE IF HasCharIn(text, 3200, 3327) THEN "kn"   \* U+0C80-U+0CFF
  ELSE IF HasCharIn(text, 3328, 3455) THEN "ml"   \* U+0D00-U+0D7F
  ELSE IF HasCharIn(text, 2560, 2687) THEN "pa"   \* U+0A00-U+0A7F
  ELSE "en"

\* keyword.lower() for every keyword of the table.
crisis_keywords_lower ==
  [l \in DOMAIN crisis_keywords |->
     [j \in 1..Len(crisis_keywords[l]) |-> lower(crisis_keywords[l][j])]]

\* The inner loop and its test: some keyword of lang, lower-cased, is a
\* substring of text_lower.
KeywordHit(lang, text_lower) ==
  \E j \in 1..Len(crisis_keywords[lang]) :
     In(crisis_keywords_lower[lang][j], text_lower)

RECURSIVE CrisisScanLast(_, _)
\* Variant without the early return: the last language with a hit wins.
CrisisScanLast(text_lower, i) ==
  IF i > Len(LangOrder) THEN ""
  ELSE LET later == CrisisScanLast(text_lower, i + 1)
       IN  IF later # "" THEN later
           ELSE IF KeywordHit(LangOrder[i], text_lower) THEN LangOrder[i]
           ELSE ""

RECURSIVE CrisisScan(_, _)
\* The outer loop from the i-th language on: the first language with a hit,
\* or "" when the loop ends without returning.
CrisisScan(text_lower, i) ==
  IF i > Len(LangOrder) THEN ""
  ELSE IF KeywordHit(LangOrder[i], text_lower) THEN LangOrder[i]
  ELSE CrisisScan(text_lower, i + 1)

\* Variant that answers the base language instead of calling the classifier.
detect_crisis_keywords_default_en(text) ==
  LET hit == CrisisScan(lower(text), 1)
  IN  IF hit # "" THEN <<TRUE, hit>>
      ELSE <<FALSE, "en">>

\* Returns the pair (is_crisis, lang).
detect_crisis_keywords(text) ==
  LET hit == CrisisScan(lower(text), 1)
  IN  IF hit # "" THEN <<TRUE, hit>>
      ELSE <<FALSE, detect_language_from_text(text)>>

(***************************************************************************)
(* Bounded inputs for the pure text functions.                             *)
(***************************************************************************)

\* Largest number of fragments concatenated into one input text.
MaxFragments == 2

\* Fragments the input texts are built from: the first crisis phrase of
\* every language, a mixed-case and a truncated English phrase, one
\* character of each supported script block (with the two characters at
\* the Devanagari/Bengali block boundary), U+0130, and plain text.
Fragments ==
  { crisis_keywords[LangOrder[i]][1] : i \in 1..Len(LangOrder) }
  \cup { <<78, 111, 32, 72, 79, 80, 69>>,        \* "No HOPE"
         <<115, 117, 105, 99, 105, 100>>,         \* "suicid"
         <<115, 117, 304, 99, 105, 100, 101>>,    \* "su" U+0130 "cide"
         <<104, 105, 32>>,                        \* "hi "
         <<2431>>, <<2432>>,                      \* U+097F, U+0980
         <<2965>>, <<3093>>, <<2709>>,            \* Tamil, Telugu, Gujarati KA
         <<3221>>, <<3349>>, <<2581>> }           \* Kannada, Malayalam, Gurmukhi KA

RECURSIVE TextsUpTo(_)
\* All concatenations of at most n fragments.
TextsUpTo(n) ==
  IF n = 0 THEN { <<>> }
  ELSE LET shorter == TextsUpTo(n - 1)
       IN  shorter \cup { t \o f : t \in shorter, f \in Fragments }

Texts == TextsUpTo(MaxFragments)

(***************************************************************************)
(* Response Generator: get_ai_response.                                    *)
(***************************************************************************)

\* get_ai_response's default for its parameter max_retries.
max_retries == 3

\* language_config: the display name given to the prompt and whether a
\* "use only this script" instruction is configured for the language.
language_config ==
  [ en |-> [name |-> "English",   script |-> FALSE],
    hi |-> [name |-> "Hindi",     script |-> TRUE],
    bn |-> [name |-> "Bengali",   script |-> TRUE],
    ta |-> [name |-> "Tamil",     script |-> TRUE],
    te |-> [name |-> "Telugu",    script |-> TRUE],
    gu |-> [name |-> "Gujarati",  script |-> TRUE],
    kn |-> [name |-> "Kannada",   script |-> TRUE],
    ml |-> [name |-> "Malayalam", script |-> TRUE],
    pa |-> [name |-> "Punjabi",   script |-> TRUE] ]

\* The language after `if language == "auto"`.
ResolveLanguage(prompt, language) ==
  IF language = "auto" THEN detect_language_from_text(prompt) ELSE language

\* system_context: the parts of the prompt that vary, i.e. the configured
\* language name, the script instruction and the user's text.
system_context(prompt, language) ==
  LET config == Get(language_config, language, language_config["en"])
  IN  [lang_instruction |-> config.name,
       script_instruction |-> config.script,
       user_message |-> prompt]

\* response.text.replace('*', '').replace('#', '').replace('`', '')
StripMarkup(s) ==
  LET Keep(c) == c \notin {42, 35, 96} IN SelectSeq(s, Keep)

\* Variant that tests for "50" instead of "503".
IsOverloaded_50(error_msg) ==
  \/ In(<<53, 48>>, error_msg)
  \/ In(<<111, 118, 101, 114, 108, 111, 97, 100, 101, 100>>, lower(error_msg))

\* "503" in error_msg or "overloaded" in error_msg.lower()
IsOverloaded(error_msg) ==
  \/ In(<<53, 48, 51>>, error_msg)
  \/ In(<<111, 118, 101, 114, 108, 111, 97, 100, 101, 100>>, lower(error_msg))

\* Variant with the exponent off by one: 1 s, 2 s.
wait_time_doubled(attempt) == (2 ^ (attempt + 1)) * 500

\* wait_time = (2 ** attempt) * 0.5 seconds, in milliseconds.
wait_time(attempt) == (2 ^ attempt) * 500

\* Variant that also sleeps after the last attempt.
AfterFailure_sleep_after_last(attempt, error_msg) ==
  IF IsOverloaded(error_msg) /\ attempt <= max_retries - 1
  THEN "sleep"
  ELSE "break"

\* Variant that retries after every error.
AfterFailure_retry_any(attempt, error_msg) ==
  IF attempt < max_retries - 1
  THEN "sleep"
  ELSE "break"

\* Variant that re-raises the errors it does not retry.
AfterFailure_reraise(attempt, error_msg) ==
  IF IsOverloaded(error_msg)
  THEN (IF attempt < max_retries - 1 THEN "sleep" ELSE "break")
  ELSE "raise"

\* What the except block does with a failed attempt: "sleep" (await the
\* backoff, then continue), or "break" out of the loop to the fallback.
\* The block never re-raises ("raise" is not produced).
AfterFailure(attempt, error_msg) ==
  IF IsOverloaded(error_msg) /\ attempt < max_retries - 1
  THEN "sleep"
  ELSE "break"

\* fallback_messages.get(language, fallback_messages['en'])
FallbackFor(language) ==
  Get(fallback_messages, language, fallback_messages["en"])

\* Reply texts the chat model may return (response.text).
Replies ==
  { <<73, 32, 104, 101, 97, 114, 32, 121, 111, 117, 46>>,        \* 'I hear you.'
    <<42, 42, 66, 114, 101, 97, 116, 104, 101, 42, 42, 32, 96, 105, 110, 96, 32, 35,
      49>> }                                                      \* '**Breathe** `in` #1'

\* str(e) of the errors the upstream call may raise.
ErrorMessages ==
  { <<53, 48, 51, 32, 83, 101, 114, 118, 105, 99, 101, 32, 85, 110, 97, 118, 97, 105,
      108, 97, 98, 108, 101>>,                                    \* '503 Service Unavailable'
    <<84, 104, 101, 32, 109, 111, 100, 101, 108, 32, 105, 115, 32, 79, 118, 101, 114,
      108, 111, 97, 100, 101, 100>>,                              \* 'The model is Overloaded'
    <<53, 48, 48, 32, 73, 110, 116, 101, 114, 110, 97, 108, 32, 101, 114, 114, 111,
      114>> }                                                     \* '500 Internal error'

\* str(e) of the AttributeError raised by None.generate_content(...).
NoneTypeError ==
  <<39, 78, 111, 110, 101, 84, 121, 112, 101, 39, 32, 111, 98, 106, 101, 99, 116, 32, 104,
    97, 115, 32, 110, 111, 32, 97, 116, 116, 114, 105, 98, 117, 116, 101, 32, 39, 103, 101,
    110, 101, 114, 97, 116, 101, 95, 99, 111, 110, 116, 101, 110, 116, 39>>

\* Outcomes of one genai_client.generate_content(system_context) call
\* followed by response.text: a reply, or an exception with its message.
ChatOutcomes(client) ==
  IF client = None
  THEN { [ok |-> FALSE, text |-> NoneTypeError] }
  ELSE { [ok |-> TRUE, text |-> r] : r \in Replies }
       \cup { [ok |-> FALSE, text |-> m] : m \in ErrorMessages }

\* Language arguments the generator is called with directly: the nine
\* tags, "auto" and a tag without configuration.
GenLanguages == LangTags \cup {"auto", "fr"}

\* User texts the generator is called with directly.
GenPrompts ==
  { <<104, 101, 108, 108, 111>>,     \* 'hello'
    <<2325>>,                        \* U+0915 (Devanagari)
    <<2965>> }                       \* U+0B95 (Tamil)

(***************************************************************************)
(* Transcription Adapter: transcribe_audio.                                *)
(***************************************************************************)

\* `not language or language == "auto"`: no language is forced.
IsAuto(language) == language = None \/ language = "" \/ language = "auto"

\* Which lang_instruction the first prompt carries (lines 74-82).
lang_instruction(language) ==
  IF ~IsAuto(language)
  THEN (IF language = "hi" THEN "hi" ELSE IF language = "bn" THEN "bn" ELSE "en")
  ELSE "auto"

\* sum(1 for word in words if any(pattern in word for pattern in patterns))
PatternCount(words, patterns) ==
  Cardinality({ i \in 1..Len(words) :
                  \E p \in 1..Len(patterns) : In(patterns[p], words[i]) })

has_devanagari(text) == HasCharIn(text, 2304, 2431)     \* U+0900-U+097F

has_bengali(text) == HasCharIn(text, 2432, 2559)        \* U+0980-U+09FF

hindi_pattern_count(text) == PatternCount(split(lower(text)), hindi_phonetic_patterns)

bengali_pattern_count(text) == PatternCount(split(lower(text)), bengali_phonetic_patterns)

\* Variant that takes the tag of the Language Classifier.
FirstDetectedLang_classifier(text) == detect_language_from_text(text)

\* detected_lang after lines 117-123.
FirstDetectedLang(text) ==
  IF has_bengali(text) \/ bengali_pattern_count(text) >= 2 THEN "bn"
  ELSE IF has_devanagari(text) \/ hindi_pattern_count(text) >= 2 THEN "hi"
  ELSE "en"

\* Variant that tests the Bengali condition before the Hindi one.
Corrective_bengali_first(text, language) ==
  IF ~IsAuto(language) THEN ""
  ELSE IF bengali_pattern_count(text) >= 2 /\ ~has_bengali(text) THEN "bn"
  ELSE IF hindi_pattern_count(text) >= 2 /\ ~has_devanagari(text) THEN "hi"
  ELSE ""

\* Variant that does not look at the script of the first transcript.
Corrective_ignores_script(text, language) ==
  IF ~IsAuto(language) THEN ""
  ELSE IF hindi_pattern_count(text) >= 2 THEN "hi"
  ELSE IF bengali_pattern_count(text) >= 2 THEN "bn"
  ELSE ""

\* The corrective prompt chosen by lines 128-157: "hi", "bn" or "" (none).
Corrective(text, language) ==
  IF ~IsAuto(language) THEN ""
  ELSE IF hindi_pattern_count(text) >= 2 /\ ~has_devanagari(text) THEN "hi"
  ELSE IF bengali_pattern_count(text) >= 2 /\ ~has_bengali(text) THEN "bn"
  ELSE ""

\* response.text of the first transcription call, before strip().
Transcripts ==
  { <<>>,
    <<32, 10>> (* ' \n' *),
    <<104, 101, 108, 108, 111, 32, 116, 104, 101, 114, 101>> (* 'hello there' *),
    <<32, 73, 32, 119, 97, 110, 116, 32, 116, 111, 32, 100, 105, 101, 32>> (* ' I want to die ' *),
    <<107, 121, 97, 32, 104, 97, 97, 108, 32, 104, 97, 105>> (* 'kya haal hai' *),
    <<97, 109, 105, 32, 98, 104, 97, 108, 111>> (* 'ami bhalo' *),
    <<107, 121, 97, 32, 104, 97, 105, 32, 97, 109, 105, 32, 116, 117, 109, 105>> (* 'kya hai ami tumi' *),
    <<107, 121, 97, 32, 104, 97, 105, 32, 97, 109, 105, 32, 116, 117, 109, 105, 32, 2350, 2376, 2306>>,
                                           \* 'kya hai ami tumi ' and the Devanagari word
    <<116, 104, 105, 110, 107, 105, 110, 103, 32, 116, 111, 32, 107, 105, 108, 108, 32, 109, 121, 115, 101, 108, 102>> (* 'thinking to kill myself' *),
    <<2350, 2376, 2306>>,                  \* Devanagari word
    <<2438, 2478, 2495>>,                  \* Bengali word
    <<2984, 3006, 2985, 3021>>,            \* Tamil word
    crisis_keywords["hi"][1],              \* the first Hindi phrase as stored in the table
    crisis_keywords["ta"][1],              \* the first Tamil phrase as stored in the table
    crisis_keywords["ta"][1] \o crisis_keywords["en"][1],
                                           \* the first Tamil phrase, then the English one
    <<2310, 2340, 2381, 2350, 2361, 2340, 2381, 2351, 2366>> }  \* the same word in Devanagari

\* response.text of the corrective call, before strip().
CorrectiveTranscripts ==
  { <<>>,
    <<32, 110, 111, 32, 104, 111, 112, 101, 32>> (* ' no hope ' *),
    <<2350, 2376, 2306>>,                  \* Devanagari word
    <<2438, 2478, 2495>> }                 \* Bengali word

\* str(e) of the exceptions that leave transcribe_audio.
SaveError == <<69, 114, 114, 111, 114, 32, 111, 112, 101, 110, 105, 110, 103, 32, 116, 101, 109, 112, 111, 114, 97, 114, 121, 32, 102, 105, 108, 101>> (* 'Error opening temporary file' *)

ClientNotInitialized == <<71, 101, 109, 105, 110, 105, 32, 99, 108, 105, 101, 110, 116, 32, 110, 111, 116, 32, 105, 110, 105, 116, 105, 97, 108, 105, 122, 101, 100, 46>> (* 'Gemini client not initialized.' *)

DisconnectError == <<87, 101, 98, 83, 111, 99, 107, 101, 116, 32, 105, 115, 32, 110, 111, 116, 32, 99, 111, 110, 110, 101, 99, 116, 101, 100>> (* 'WebSocket is not connected' *)

NoSpeechDetected == <<78, 111, 32, 115, 112, 101, 101, 99, 104, 32, 100, 101, 116, 101, 99, 116, 101, 100>> (* 'No speech detected' *)

ConnectedMessage == <<67, 111, 110, 110, 101, 99, 116, 101, 100, 32, 116, 111, 32, 65, 114, 110, 105, 115, 104, 32, 45, 32, 89, 111, 117, 114, 32, 80, 114, 111, 102, 101, 115, 115, 105, 111, 110, 97, 108, 32, 77, 101, 110, 116, 97, 108, 32, 72, 101, 97, 108, 116, 104, 32, 65, 73, 32, 65, 115, 115, 105, 115, 116, 97, 110, 116>> (* 'Connected to Arnish - Your Professional Mental Health AI Assistant' *)

\* str(e) of the exception raised by the failing step of the conversion.
ConvertError(failing) ==
  CASE failing = "b64decode" -> <<73, 110, 99, 111, 114, 114, 101, 99, 116, 32, 112, 97, 100, 100, 105, 110, 103>> (* 'Incorrect padding' *)
    [] failing = "ffmpeg" -> <<67, 111, 109, 109, 97, 110, 100, 32, 39, 102, 102, 109, 112, 101, 103, 39, 32, 114, 101, 116, 117, 114, 110, 101, 100, 32, 110, 111, 110, 45, 122, 101, 114, 111, 32, 101, 120, 105, 116, 32, 115, 116, 97, 116, 117, 115, 32, 49, 46>> (* "Command 'ffmpeg' returned non-zero exit status 1." *)
    [] failing = "librosa" -> <<69, 114, 114, 111, 114, 32, 111, 112, 101, 110, 105, 110, 103, 32, 116, 101, 109, 112, 111, 114, 97, 114, 121, 32, 102, 105, 108, 101>> (* 'Error opening temporary file' *)
    [] OTHER -> <<91, 69, 114, 114, 110, 111, 32, 50, 56, 93, 32, 78, 111, 32, 115, 112, 97, 99, 101, 32, 108, 101, 102, 116, 32, 111, 110, 32, 100, 101, 118, 105, 99, 101>> (* '[Errno 28] No space left on device' *)

(***************************************************************************)
(* State.                                                                   *)
(***************************************************************************)

VARIABLES
  \* harness of the pure functions
  in_text,          \* the argument text
  lang_out,         \* detect_language_from_text(in_text), "" before the call
  crisis_out,       \* detect_crisis_keywords(in_text), <<>> before the call
  \* harness of the language-tag lookups
  in_tag,           \* the argument language tag, "" when none is drawn
  msgs_out,         \* the messages looked up in the handler's two tables
  \* text_to_speech
  tts_pc,           \* "idle", "gtts" or "done"
  tts_language,     \* parameter language
  tts_lang,         \* local tts_lang
  tts_status,       \* HTTP status of the answer, 0 before it
  \* process
  genai_client,     \* the module global: None or "ready"
  files,            \* temporary files on disk, as pairs <<unit, name>>
  \* get_ai_response
  ai_pc,            \* "idle", "call", "sleep" or "done"
  ai_prompt,        \* parameter prompt
  ai_arg_language,  \* parameter language as passed
  ai_language,      \* local language after the "auto" resolution
  ai_context,       \* system_context
  attempt,          \* loop variable
  ai_outcomes,      \* outcomes of the upstream calls made so far
  ai_sleeps,        \* wait_time of every asyncio.sleep started so far
  ai_return,        \* how the call ended: kind "none", "return" or "raise"
  \* transcribe_audio
  tr_pc,            \* "idle", "save", "upload", "first", "second_hi", "second_bn", "done"
  tr_language,      \* parameter language
  tr_prompts,       \* the prompts submitted upstream so far
  tr_first_text,    \* text after the first call
  tr_return,        \* how the call ended: kind "none", "return" or "raise"
  tr_exc,           \* the statement of the call that raised, "" when none did
  \* websocket_endpoint
  pc,               \* position of the handler
  conn,             \* "open" until the client disconnects, then "closed"
  units,            \* number of inbound messages received
  data,             \* the inbound message being processed
  forced_language,  \* data.get("language", None)
  text,             \* transcribed text
  language,         \* detected language
  is_crisis,        \* detect_crisis_keywords(text)[0]
  crisis_lang,      \* detect_crisis_keywords(text)[1]
  ai_response,      \* reply text
  exc,              \* str(e) of the exception being handled
  events,           \* every event sent on the connection: [unit, type]
  unit_events       \* the full events sent for the current inbound message

lookup_vars == <<in_tag, msgs_out, tts_pc, tts_language, tts_lang, tts_status>>

pure_vars == <<in_text, lang_out, crisis_out, lookup_vars>>

gen_vars == <<ai_pc, ai_prompt, ai_arg_language, ai_language, ai_context, attempt,
              ai_outcomes, ai_sleeps, ai_return>>

tr_vars == <<tr_pc, tr_language, tr_prompts, tr_first_text, tr_return, tr_exc>>

local_vars == <<data, forced_language, text, language, is_crisis, crisis_lang,
                ai_response, exc>>

ws_vars == <<pc, conn, units, local_vars, events, unit_events>>

vars == <<pure_vars, genai_client, files, gen_vars, tr_vars, ws_vars>>

NoReturn == [kind |-> "none", value |-> <<>>]

NoContext == [lang_instruction |-> "", script_instruction |-> FALSE, user_message |-> <<>>]

NoTrReturn == [kind |-> "none", text |-> <<>>, lang |-> ""]

NoData == [type |-> "", language |-> None]

NoMsgs == [crisis |-> <<>>, trouble |-> <<>>]

LookupIdle ==
  /\ in_tag = ""
  /\ msgs_out = NoMsgs
  /\ tts_pc = "idle"
  /\ tts_language = ""
  /\ tts_lang = ""
  /\ tts_status = 0

PureIdle ==
  /\ in_text = <<>>
  /\ lang_out = ""
  /\ crisis_out = <<>>
  /\ LookupIdle

GenIdle ==
  /\ ai_pc = "idle"
  /\ ai_prompt = <<>>
  /\ ai_arg_language = ""
  /\ ai_language = ""
  /\ ai_context = NoContext
  /\ attempt = 0
  /\ ai_outcomes = <<>>
  /\ ai_sleeps = <<>>
  /\ ai_return = NoReturn

TrIdle ==
  /\ tr_pc = "idle"
  /\ tr_language = None
  /\ tr_prompts = <<>>
  /\ tr_first_text = <<>>
  /\ tr_return = NoTrReturn
  /\ tr_exc = ""

WsIdle ==
  /\ pc = "idle"
  /\ conn = "closed"
  /\ units = 0
  /\ data = NoData
  /\ forced_language = None
  /\ text = <<>>
  /\ language = ""
  /\ is_crisis = FALSE
  /\ crisis_lang = ""
  /\ ai_response = <<>>
  /\ exc = <<>>
  /\ events = <<>>
  /\ unit_events = <<>>

(***************************************************************************)
(* Specification of the pure functions: the argument is drawn from Texts   *)
(* and each function is applied to it.                                      *)
(***************************************************************************)

InitPure ==
  /\ in_text \in Texts
  /\ lang_out = ""
  /\ crisis_out = <<>>
  /\ LookupIdle
  /\ genai_client = None
  /\ files = {}
  /\ GenIdle
  /\ TrIdle
  /\ WsIdle

Classify ==
  /\ lang_out = ""
  /\ lang_out' = detect_language_from_text(in_text)
  /\ UNCHANGED <<in_text, crisis_out, lookup_vars, genai_client, files, gen_vars, tr_vars, ws_vars>>

DetectCrisis ==
  /\ crisis_out = <<>>
  /\ crisis_out' = detect_crisis_keywords(in_text)
  /\ UNCHANGED <<in_text, lang_out, lookup_vars, genai_client, files, gen_vars, tr_vars, ws_vars>>

NextPure == Classify \/ DetectCrisis

SpecPure == InitPure /\ [][NextPure]_vars

(***************************************************************************)
(* get_ai_response as a state machine.                                      *)
(***************************************************************************)

\* Entry of get_ai_response(prompt, language): lines 238-296.
EnterGetAiResponse(prompt, lang) ==
  /\ ai_pc' = "call"
  /\ ai_prompt' = prompt
  /\ ai_arg_language' = lang
  /\ ai_language' = ResolveLanguage(prompt, lang)
  /\ ai_context' = system_context(prompt, ResolveLanguage(prompt, lang))
  /\ attempt' = 0
  /\ ai_outcomes' = <<>>
  /\ ai_sleeps' = <<>>
  /\ ai_return' = NoReturn

\* One iteration of the retry loop: the upstream call, then either the
\* return of the stripped reply or the except block.
GenerateContent ==
  /\ ai_pc = "call"
  /\ \E o \in ChatOutcomes(genai_client) :
       /\ ai_outcomes' = Append(ai_outcomes, o)
       /\ IF o.ok
          THEN /\ ai_pc' = "done"
               /\ ai_return' = [kind |-> "return", value |-> StripMarkup(o.text)]
               /\ UNCHANGED ai_sleeps
          ELSE CASE AfterFailure(attempt, o.text) = "sleep" ->
                      /\ ai_pc' = "sleep"
                      /\ ai_sleeps' = Append(ai_sleeps, wait_time(attempt))
                      /\ UNCHANGED ai_return
                 [] AfterFailure(attempt, o.text) = "break" ->
                      /\ ai_pc' = "done"
                      /\ ai_return' = [kind |-> "return", value |-> FallbackFor(ai_language)]
                      /\ UNCHANGED ai_sleeps
                 [] OTHER ->
                      /\ ai_pc' = "done"
                      /\ ai_return' = [kind |-> "raise", value |-> o.text]
                      /\ UNCHANGED ai_sleeps
  /\ UNCHANGED <<ai_prompt, ai_arg_language, ai_language, ai_context, attempt>>
  /\ UNCHANGED <<pure_vars, genai_client, files, tr_vars, ws_vars>>

\* asyncio.sleep(wait_time) completes and `continue` takes the next value
\* of range(max_retries); when the range is exhausted the loop ends and the
\* fallback is returned.
SleepDone ==
  /\ ai_pc = "sleep"
  /\ IF attempt + 1 < max_retries
     THEN /\ ai_pc' = "call"
          /\ attempt' = attempt + 1
          /\ UNCHANGED ai_return
     ELSE /\ ai_pc' = "done"
          /\ ai_return' = [kind |-> "return", value |-> FallbackFor(ai_language)]
          /\ UNCHANGED attempt
  /\ UNCHANGED <<ai_prompt, ai_arg_language, ai_language, ai_context,
                 ai_outcomes, ai_sleeps>>
  /\ UNCHANGED <<pure_vars, genai_client, files, tr_vars, ws_vars>>

(***************************************************************************)
(* Specification of the Response Generator called directly: the arguments  *)
(* and the state of the client handle are drawn from bounded sets.          *)
(***************************************************************************)

InitGen ==
  /\ PureIdle
  /\ genai_client \in {None, "ready"}
  /\ files = {}
  /\ ai_pc = "idle"
  /\ ai_prompt \in GenPrompts
  /\ ai_arg_language \in GenLanguages
  /\ ai_language = ""
  /\ ai_context = NoContext
  /\ attempt = 0
  /\ ai_outcomes = <<>>
  /\ ai_sleeps = <<>>
  /\ ai_return = NoReturn
  /\ TrIdle
  /\ WsIdle

CallGetAiResponse ==
  /\ ai_pc = "idle"
  /\ pc = "idle"
  /\ EnterGetAiResponse(ai_prompt, ai_arg_language)
  /\ UNCHANGED <<pure_vars, genai_client, files, tr_vars, ws_vars>>

NextGen == CallGetAiResponse \/ GenerateContent \/ SleepDone

SpecGen == InitGen /\ [][NextGen]_vars

(***************************************************************************)
(* transcribe_audio as a state machine.  The temporary container of the    *)
(* call made for inbound message u is the file <<u, "tr">>.                 *)
(***************************************************************************)

\* Entry of transcribe_audio(audio_data, language): lines 61-62.
EnterTranscribe(lang) ==
  /\ tr_language' = lang
  /\ tr_prompts' = <<>>
  /\ tr_first_text' = <<>>
  /\ IF genai_client = None
     THEN /\ tr_pc' = "done"
          /\ tr_return' = [kind |-> "raise", text |-> ClientNotInitialized, lang |-> ""]
          /\ tr_exc' = "raise"
     ELSE /\ tr_pc' = "save"
          /\ tr_return' = NoTrReturn
          /\ tr_exc' = ""

\* The finally block (lines 164-167) on a path that returns ret: the
\* container is removed (os.remove of an existing temporary file is taken
\* to succeed).
TrFinally(ret) ==
  /\ files' = files \ {<<units, "tr">>}
  /\ tr_return' = ret

\* Lines 65-67: the container is created (delete=False) and written; a
\* failure here is outside the try block and propagates.
TrSave ==
  /\ tr_pc = "save"
  /\ \E outcome \in {"ok", "create_fails", "write_fails"} :
       /\ files' = IF outcome = "create_fails" THEN files
                   ELSE files \cup {<<units, "tr">>}
       /\ IF outcome = "ok"
          THEN /\ tr_pc' = "upload"
               /\ UNCHANGED <<tr_return, tr_exc>>
          ELSE /\ tr_pc' = "done"
               /\ tr_return' = [kind |-> "raise", text |-> SaveError, lang |-> ""]
               /\ tr_exc' = IF outcome = "create_fails"
                            THEN "NamedTemporaryFile" ELSE "sf.write"
  /\ UNCHANGED <<tr_language, tr_prompts, tr_first_text>>
  /\ UNCHANGED <<pure_vars, genai_client, gen_vars, ws_vars>>

\* Variant in which a failure of the upload leaves transcribe_audio.
TrUpload_propagates ==
  /\ tr_pc = "upload"
  /\ \/ /\ tr_pc' = "first"
        /\ UNCHANGED <<tr_return, tr_exc, files>>
     \/ /\ tr_pc' = "done"
        /\ tr_exc' = "upload_file"
        /\ TrFinally([kind |-> "raise", text |-> SaveError, lang |-> ""])
  /\ UNCHANGED <<tr_language, tr_prompts, tr_first_text>>
  /\ UNCHANGED <<pure_vars, genai_client, gen_vars, ws_vars>>

\* Line 71: genai.upload_file; a failure is caught at line 161.
TrUpload ==
  /\ tr_pc = "upload"
  /\ \/ /\ tr_pc' = "first"
        /\ UNCHANGED <<tr_return, tr_exc, files>>
     \/ /\ tr_pc' = "done"
        /\ tr_exc' = "upload_file"
        /\ TrFinally([kind |-> "return", text |-> <<>>, lang |-> "en"])
  /\ UNCHANGED <<tr_language, tr_prompts, tr_first_text>>
  /\ UNCHANGED <<pure_vars, genai_client, gen_vars, ws_vars>>

\* Variant in which a forced language is returned as the detected language.
TrFirst_forced_tag ==
  /\ tr_pc = "first"
  /\ tr_prompts' = Append(tr_prompts, lang_instruction(tr_language))
  /\ \/ \E raw \in Transcripts :
          LET t == strip(raw) IN
          /\ tr_first_text' = t
          /\ UNCHANGED tr_exc
          /\ IF Corrective(t, tr_language) = ""
             THEN /\ tr_pc' = "done"
                  /\ TrFinally([kind |-> "return", text |-> t,
                                lang |-> IF IsAuto(tr_language)
                                         THEN FirstDetectedLang(t)
                                         ELSE tr_language])
             ELSE /\ tr_pc' = IF Corrective(t, tr_language) = "hi"
                               THEN "second_hi" ELSE "second_bn"
                  /\ UNCHANGED <<tr_return, files>>
     \/ /\ tr_pc' = "done"
        /\ UNCHANGED tr_first_text
        /\ tr_exc' = "generate_content"
        /\ TrFinally([kind |-> "return", text |-> <<>>, lang |-> "en"])
  /\ UNCHANGED tr_language
  /\ UNCHANGED <<pure_vars, genai_client, gen_vars, ws_vars>>

\* Lines 74-126 and the decision of lines 128-144: the first upstream call,
\* the heuristics on its stripped text, and either the return or the move
\* to the corrective call.
TrFirst ==
  /\ tr_pc = "first"
  /\ tr_prompts' = Append(tr_prompts, lang_instruction(tr_language))
  /\ \/ \E raw \in Transcripts :
          LET t == strip(raw) IN
          /\ tr_first_text' = t
          /\ UNCHANGED tr_exc
          /\ IF Corrective(t, tr_language) = ""
             THEN /\ tr_pc' = "done"
                  /\ TrFinally([kind |-> "return", text |-> t,
                                lang |-> FirstDetectedLang(t)])
             ELSE /\ tr_pc' = IF Corrective(t, tr_language) = "hi"
                               THEN "second_hi" ELSE "second_bn"
                  /\ UNCHANGED <<tr_return, files>>
     \/ /\ tr_pc' = "done"
        /\ UNCHANGED tr_first_text
        /\ tr_exc' = "generate_content"
        /\ TrFinally([kind |-> "return", text |-> <<>>, lang |-> "en"])
  /\ UNCHANGED tr_language
  /\ UNCHANGED <<pure_vars, genai_client, gen_vars, ws_vars>>

\* Variant that derives the detected language from the corrective text.
TrSecond_reinspect ==
  /\ tr_pc \in {"second_hi", "second_bn"}
  /\ tr_pc' = "done"
  /\ tr_prompts' = Append(tr_prompts, IF tr_pc = "second_hi"
                                      THEN "prompt_hindi" ELSE "prompt_bengali")
  /\ \/ /\ UNCHANGED tr_exc
        /\ \E raw \in CorrectiveTranscripts :
             TrFinally([kind |-> "return", text |-> strip(raw),
                        lang |-> FirstDetectedLang(strip(raw))])
     \/ /\ tr_exc' = "generate_content"
        /\ TrFinally([kind |-> "return", text |-> <<>>, lang |-> "en"])
  /\ UNCHANGED <<tr_language, tr_first_text>>
  /\ UNCHANGED <<pure_vars, genai_client, gen_vars, ws_vars>>

\* Lines 132-142 (position "second_hi") or 147-157 (position "second_bn"):
\* the corrective call; its stripped text replaces the first text and
\* detected_lang becomes the corrected language.
TrSecond ==
  /\ tr_pc \in {"second_hi", "second_bn"}
  /\ tr_pc' = "done"
  /\ tr_prompts' = Append(tr_prompts, IF tr_pc = "second_hi"
                                      THEN "prompt_hindi" ELSE "prompt_bengali")
  /\ \/ /\ UNCHANGED tr_exc
        /\ \E raw \in CorrectiveTranscripts :
             TrFinally([kind |-> "return", text |-> strip(raw),
                        lang |-> IF tr_pc = "second_hi" THEN "hi" ELSE "bn"])
     \/ /\ tr_exc' = "generate_content"
        /\ TrFinally([kind |-> "return", text |-> <<>>, lang |-> "en"])
  /\ UNCHANGED <<tr_language, tr_first_text>>
  /\ UNCHANGED <<pure_vars, genai_client, gen_vars, ws_vars>>

(***************************************************************************)
(* websocket_endpoint.                                                      *)
(***************************************************************************)

\* Largest number of inbound messages one session receives.
MaxUnits == 2

\* data.get("language", None) of the audio messages: absent, "auto", two
\* tags the transcriber has an instruction for, a supported tag it has none
\* for, and a string that is no tag.
Hints == {None, "auto", "hi", "bn", "ta", "xx"}

\* The values websocket.receive_json() is given by the client: audio
\* objects, a ping object, an object of another type, a JSON value that is
\* not an object, and a text frame that is not JSON.
Inbound ==
  { [type |-> "audio", language |-> h] : h \in Hints }
  \cup { [type |-> "ping", language |-> None],
         [type |-> "other", language |-> None],
         [type |-> "<not an object>", language |-> None],
         [type |-> "<not JSON>", language |-> None] }

Event(type, txt, lang, crisis) ==
  [type |-> type, text |-> txt, language |-> lang, crisis |-> crisis]

\* websocket.send_json(ev) on an open connection.
Sent(ev) ==
  /\ events' = Append(events, [unit |-> units, type |-> ev.type])
  /\ unit_events' = Append(unit_events, ev)

\* Variant in which a send on a closed connection is skipped silently.
SendInUnit_ignore_close(ev, next) ==
  IF conn = "open"
  THEN /\ Sent(ev)
       /\ pc' = next
       /\ UNCHANGED exc
  ELSE /\ pc' = next
       /\ UNCHANGED <<exc, events, unit_events>>

\* websocket.send_json inside the inner try block of an audio message: the
\* event is sent and the handler moves to next, or the connection is closed
\* and the exception is caught by the handler at line 988.
SendInUnit(ev, next) ==
  IF conn = "open"
  THEN /\ Sent(ev)
       /\ pc' = next
       /\ UNCHANGED exc
  ELSE /\ pc' = "send_error"
       /\ exc' = DisconnectError
       /\ UNCHANGED <<events, unit_events>>

\* crisis_messages.get(crisis_lang, crisis_messages['en'])
crisis_response(lang) == Get(crisis_messages, lang, crisis_messages["en"])

\* fallback_msgs.get(language, fallback_msgs['en'])
ConnectionTrouble(lang) == Get(fallback_msgs, lang, fallback_msgs["en"])

\* load_models(), run by the startup event before connections are served.
load_models ==
  /\ pc = "accept"
  /\ genai_client = None
  /\ genai_client' = "ready"
  /\ UNCHANGED <<pure_vars, files, gen_vars, tr_vars, ws_vars>>

\* Variant without the acknowledgement: the loop is entered at once.
Accept_without_ack ==
  /\ pc = "accept"
  /\ pc' = "receive"
  /\ conn' = "open"
  /\ UNCHANGED <<units, local_vars, events, unit_events>>
  /\ UNCHANGED <<pure_vars, genai_client, files, gen_vars, tr_vars>>

\* Line 866: websocket.accept().
Accept ==
  /\ pc = "accept"
  /\ pc' = "send_connected"
  /\ conn' = "open"
  /\ UNCHANGED <<units, local_vars, events, unit_events>>
  /\ UNCHANGED <<pure_vars, genai_client, files, gen_vars, tr_vars>>

\* The client closes the connection (or the transport fails).
ClientClose ==
  /\ conn = "open"
  /\ pc # "accept"
  /\ conn' = "closed"
  /\ UNCHANGED <<pc, units, local_vars, events, unit_events>>
  /\ UNCHANGED <<pure_vars, genai_client, files, gen_vars, tr_vars>>

\* Lines 870-873: the acknowledgement; a failure ends the handler.
SendConnected ==
  /\ pc = "send_connected"
  /\ IF conn = "open"
     THEN /\ Sent(Event("connected", ConnectedMessage, "", FALSE))
          /\ pc' = "receive"
     ELSE /\ pc' = "closed"
          /\ UNCHANGED <<events, unit_events>>
  /\ UNCHANGED <<conn, units, local_vars>>
  /\ UNCHANGED <<pure_vars, genai_client, files, gen_vars, tr_vars>>

\* Variant in which the next message is also received while a unit waits in
\* its backoff sleep, as if each unit were run as a task of its own.
Receive_during_sleep ==
  /\ pc = "receive" \/ (pc = "responding" /\ ai_pc = "sleep")
  /\ \/ /\ conn = "closed"
        /\ pc' = "closed"
        /\ UNCHANGED <<units, local_vars, unit_events>>
        /\ UNCHANGED <<gen_vars, tr_vars>>
     \/ /\ conn = "open"
        /\ units < MaxUnits
        /\ units' = units + 1
        /\ unit_events' = <<>>
        /\ text' = <<>>
        /\ language' = ""
        /\ is_crisis' = FALSE
        /\ crisis_lang' = ""
        /\ ai_response' = <<>>
        /\ exc' = <<>>
        /\ ai_pc' = "idle" /\ ai_prompt' = <<>> /\ ai_arg_language' = ""
        /\ ai_language' = "" /\ ai_context' = NoContext /\ attempt' = 0
        /\ ai_outcomes' = <<>> /\ ai_sleeps' = <<>> /\ ai_return' = NoReturn
        /\ tr_pc' = "idle" /\ tr_language' = None /\ tr_prompts' = <<>>
        /\ tr_first_text' = <<>> /\ tr_return' = NoTrReturn /\ tr_exc' = ""
        /\ \E msg \in Inbound :
             /\ data' = msg
             /\ forced_language' = msg.language
             /\ pc' = CASE msg.type = "audio" -> "convert"
                        [] msg.type = "ping" -> "send_pong"
                        [] msg.type = "other" -> "receive"
                        [] OTHER -> "closed"
  /\ UNCHANGED <<conn, events>>
  /\ UNCHANGED <<pure_vars, genai_client, files>>

\* Variant with `else` in place of the `elif`: every object that is not an
\* audio message is answered with a pong.
Receive_else_pong ==
  /\ pc = "receive"
  /\ \/ /\ conn = "closed"
        /\ pc' = "closed"
        /\ UNCHANGED <<units, local_vars, unit_events>>
        /\ UNCHANGED <<gen_vars, tr_vars>>
     \/ /\ conn = "open"
        /\ units < MaxUnits
        /\ units' = units + 1
        /\ unit_events' = <<>>
        /\ text' = <<>>
        /\ language' = ""
        /\ is_crisis' = FALSE
        /\ crisis_lang' = ""
        /\ ai_response' = <<>>
        /\ exc' = <<>>
        /\ ai_pc' = "idle" /\ ai_prompt' = <<>> /\ ai_arg_language' = ""
        /\ ai_language' = "" /\ ai_context' = NoContext /\ attempt' = 0
        /\ ai_outcomes' = <<>> /\ ai_sleeps' = <<>> /\ ai_return' = NoReturn
        /\ tr_pc' = "idle" /\ tr_language' = None /\ tr_prompts' = <<>>
        /\ tr_first_text' = <<>> /\ tr_return' = NoTrReturn /\ tr_exc' = ""
        /\ \E msg \in Inbound :
             /\ data' = msg
             /\ forced_language' = msg.language
             /\ pc' = CASE msg.type = "audio" -> "convert"
                        [] msg.type = "ping" -> "send_pong"
                        [] msg.type = "other" -> "send_pong"
                        [] OTHER -> "closed"
  /\ UNCHANGED <<conn, events>>
  /\ UNCHANGED <<pure_vars, genai_client, files>>

\* Lines 877-884 and 995: receive_json() and the dispatch on data["type"].
\* A closed connection, a frame that is not JSON and a JSON value without
\* .get() raise outside the inner try block and end the handler.
Receive ==
  /\ pc = "receive"
  /\ \/ /\ conn = "closed"
        /\ pc' = "closed"
        /\ UNCHANGED <<units, local_vars, unit_events>>
        /\ UNCHANGED <<gen_vars, tr_vars>>
     \/ /\ conn = "open"
        /\ units < MaxUnits
        /\ units' = units + 1
        /\ unit_events' = <<>>
        /\ text' = <<>>
        /\ language' = ""
        /\ is_crisis' = FALSE
        /\ crisis_lang' = ""
        /\ ai_response' = <<>>
        /\ exc' = <<>>
        /\ ai_pc' = "idle" /\ ai_prompt' = <<>> /\ ai_arg_language' = ""
        /\ ai_language' = "" /\ ai_context' = NoContext /\ attempt' = 0
        /\ ai_outcomes' = <<>> /\ ai_sleeps' = <<>> /\ ai_return' = NoReturn
        /\ tr_pc' = "idle" /\ tr_language' = None /\ tr_prompts' = <<>>
        /\ tr_first_text' = <<>> /\ tr_return' = NoTrReturn /\ tr_exc' = ""
        /\ \E msg \in Inbound :
             /\ data' = msg
             /\ forced_language' = msg.language
             /\ pc' = CASE msg.type = "audio" -> "convert"
                        [] msg.type = "ping" -> "send_pong"
                        [] msg.type = "other" -> "receive"
                        [] OTHER -> "closed"
  /\ UNCHANGED <<conn, events>>
  /\ UNCHANGED <<pure_vars, genai_client, files>>

\* Variant without the `elif`: after the pong the message is processed as
\* an audio message.
SendPong_then_process ==
  /\ pc = "send_pong"
  /\ IF conn = "open"
     THEN /\ Sent(Event("pong", <<>>, "", FALSE))
          /\ pc' = "convert"
     ELSE /\ pc' = "closed"
          /\ UNCHANGED <<events, unit_events>>
  /\ UNCHANGED <<conn, units, local_vars>>
  /\ UNCHANGED <<pure_vars, genai_client, files, gen_vars, tr_vars>>

\* Line 996.
SendPong ==
  /\ pc = "send_pong"
  /\ IF conn = "open"
     THEN /\ Sent(Event("pong", <<>>, "", FALSE))
          /\ pc' = "receive"
     ELSE /\ pc' = "closed"
          /\ UNCHANGED <<events, unit_events>>
  /\ UNCHANGED <<conn, units, local_vars>>
  /\ UNCHANGED <<pure_vars, genai_client, files, gen_vars, tr_vars>>

\* Lines 887-921: base64 decoding, the two temporary files, ffmpeg,
\* librosa.load, the removal of both files, and the entry of
\* transcribe_audio.  The step that fails (if any) is chosen; the files
\* created before it stay on disk, since the removal is on the normal path
\* only.  On the normal path both files are removed (os.remove of an
\* existing temporary file is taken to succeed).
ConvertAudio ==
  /\ pc = "convert"
  /\ \E failing \in {"b64decode", "tmp_in_create", "tmp_in_write", "tmp_wav_create",
                     "ffmpeg", "librosa", "none"} :
       LET in == <<units, "tmp_in">>
           wav == <<units, "tmp_wav">>
       IN
       IF failing = "none"
       THEN /\ files' = files \ {in, wav}
            /\ EnterTranscribe(forced_language)
            /\ pc' = "transcribing"
            /\ UNCHANGED exc
       ELSE /\ files' = CASE failing \in {"b64decode", "tmp_in_create"} -> files
                          [] failing \in {"tmp_in_write", "tmp_wav_create"} ->
                               files \cup {in}
                          [] OTHER -> files \cup {in, wav}
            /\ exc' = ConvertError(failing)
            /\ pc' = "send_error"
            /\ UNCHANGED tr_vars
  /\ UNCHANGED <<conn, units, data, forced_language, text, language, is_crisis,
                 crisis_lang, ai_response, events, unit_events>>
  /\ UNCHANGED <<pure_vars, genai_client, gen_vars>>

\* Variant without the test `if not text`.
TranscribeReturns_no_empty_check ==
  /\ pc = "transcribing"
  /\ tr_pc = "done"
  /\ IF tr_return.kind = "raise"
     THEN /\ exc' = tr_return.text
          /\ pc' = "send_error"
          /\ UNCHANGED <<text, language>>
     ELSE /\ text' = tr_return.text
          /\ language' = tr_return.lang
          /\ pc' = "send_transcription"
          /\ UNCHANGED exc
  /\ UNCHANGED <<conn, units, data, forced_language, is_crisis, crisis_lang,
                 ai_response, events, unit_events>>
  /\ UNCHANGED <<pure_vars, genai_client, files, gen_vars, tr_vars>>

\* Line 921: transcribe_audio returns (text, language) or raises.
TranscribeReturns ==
  /\ pc = "transcribing"
  /\ tr_pc = "done"
  /\ IF tr_return.kind = "raise"
     THEN /\ exc' = tr_return.text
          /\ pc' = "send_error"
          /\ UNCHANGED <<text, language>>
     ELSE /\ text' = tr_return.text
          /\ language' = tr_return.lang
          /\ pc' = IF tr_return.text = <<>> THEN "send_no_speech" ELSE "send_transcription"
          /\ UNCHANGED exc
  /\ UNCHANGED <<conn, units, data, forced_language, is_crisis, crisis_lang,
                 ai_response, events, unit_events>>
  /\ UNCHANGED <<pure_vars, genai_client, files, gen_vars, tr_vars>>

\* Lines 923-928: the empty transcript; `continue` returns to the receive.
SendNoSpeech ==
  /\ pc = "send_no_speech"
  /\ SendInUnit(Event("error", NoSpeechDetected, "", FALSE), "receive")
  /\ UNCHANGED <<conn, units, data, forced_language, text, language, is_crisis,
                 crisis_lang, ai_response>>
  /\ UNCHANGED <<pure_vars, genai_client, files, gen_vars, tr_vars>>

\* Variant without the test `if is_crisis`: the crisis event is sent for
\* every transcript.
SendTranscription_always_crisis ==
  /\ pc = "send_transcription"
  /\ IF conn = "open"
     THEN LET crisis == detect_crisis_keywords(text) IN
          /\ Sent(Event("transcription", text, language, FALSE))
          /\ is_crisis' = crisis[1]
          /\ crisis_lang' = crisis[2]
          /\ UNCHANGED exc
          /\ pc' = "send_crisis"
          /\ UNCHANGED gen_vars
     ELSE /\ pc' = "send_error"
          /\ exc' = DisconnectError
          /\ UNCHANGED <<events, unit_events, is_crisis, crisis_lang, gen_vars>>
  /\ UNCHANGED <<conn, units, data, forced_language, text, language, ai_response>>
  /\ UNCHANGED <<pure_vars, genai_client, files, tr_vars>>

\* Variant that enters get_ai_response before the crisis event is sent.
SendTranscription_generator_first ==
  /\ pc = "send_transcription"
  /\ IF conn = "open"
     THEN LET crisis == detect_crisis_keywords(text) IN
          /\ Sent(Event("transcription", text, language, FALSE))
          /\ is_crisis' = crisis[1]
          /\ crisis_lang' = crisis[2]
          /\ UNCHANGED exc
          /\ pc' = IF crisis[1] THEN "send_crisis" ELSE "responding"
          /\ EnterGetAiResponse(text, language)
     ELSE /\ pc' = "send_error"
          /\ exc' = DisconnectError
          /\ UNCHANGED <<events, unit_events, is_crisis, crisis_lang, gen_vars>>
  /\ UNCHANGED <<conn, units, data, forced_language, text, language, ai_response>>
  /\ UNCHANGED <<pure_vars, genai_client, files, tr_vars>>

\* Lines 931-941 (and 964 when there is no crisis): the transcription
\* event, then detect_crisis_keywords(text); without a crisis flag
\* get_ai_response is entered at once.
SendTranscription ==
  /\ pc = "send_transcription"
  /\ IF conn = "open"
     THEN LET crisis == detect_crisis_keywords(text) IN
          /\ Sent(Event("transcription", text, language, FALSE))
          /\ is_crisis' = crisis[1]
          /\ crisis_lang' = crisis[2]
          /\ UNCHANGED exc
          /\ IF crisis[1]
             THEN /\ pc' = "send_crisis"
                  /\ UNCHANGED gen_vars
             ELSE /\ pc' = "responding"
                  /\ EnterGetAiResponse(text, language)
     ELSE /\ pc' = "send_error"
          /\ exc' = DisconnectError
          /\ UNCHANGED <<events, unit_events, is_crisis, crisis_lang, gen_vars>>
  /\ UNCHANGED <<conn, units, data, forced_language, text, language, ai_response>>
  /\ UNCHANGED <<pure_vars, genai_client, files, tr_vars>>

\* Variant in which the crisis event ends the unit.
SendCrisis_only ==
  /\ pc = "send_crisis"
  /\ SendInUnit(Event("response", crisis_response(crisis_lang), crisis_lang, TRUE),
                "receive")
  /\ UNCHANGED gen_vars
  /\ UNCHANGED <<conn, units, data, forced_language, text, language, is_crisis,
                 crisis_lang, ai_response>>
  /\ UNCHANGED <<pure_vars, genai_client, files, tr_vars>>

\* Variant in which the crisis event is written in the language detected
\* for the transcript.
SendCrisis_detected_language ==
  /\ pc = "send_crisis"
  /\ SendInUnit(Event("response", crisis_response(language), language, TRUE),
                "responding")
  /\ IF conn = "open"
     THEN EnterGetAiResponse(text, language)
     ELSE UNCHANGED gen_vars
  /\ UNCHANGED <<conn, units, data, forced_language, text, language, is_crisis,
                 crisis_lang, ai_response>>
  /\ UNCHANGED <<pure_vars, genai_client, files, tr_vars>>

\* Lines 942-964: the crisis event, then the entry of get_ai_response.
SendCrisis ==
  /\ pc = "send_crisis"
  /\ SendInUnit(Event("response", crisis_response(crisis_lang), crisis_lang, TRUE),
                "responding")
  /\ IF conn = "open"
     THEN EnterGetAiResponse(text, language)
     ELSE UNCHANGED gen_vars
  /\ UNCHANGED <<conn, units, data, forced_language, text, language, is_crisis,
                 crisis_lang, ai_response>>
  /\ UNCHANGED <<pure_vars, genai_client, files, tr_vars>>

\* Variant that sends the normal response only when there is no crisis.
SendResponse_unless_crisis ==
  /\ pc = "responding"
  /\ ai_pc = "done"
  /\ LET reply == IF ai_return.kind = "return" THEN ai_return.value
                  ELSE ConnectionTrouble(language)
     IN  /\ ai_response' = reply
         /\ IF is_crisis
            THEN /\ pc' = "send_tts"
                 /\ UNCHANGED <<exc, events, unit_events>>
            ELSE SendInUnit(Event("response", reply, language, FALSE), "send_tts")
  /\ UNCHANGED <<conn, units, data, forced_language, text, language, is_crisis,
                 crisis_lang>>
  /\ UNCHANGED <<pure_vars, genai_client, files, gen_vars, tr_vars>>

\* Lines 964-979: get_ai_response has ended; its value, or the
\* connection-trouble message if it raised, is sent as the normal response.
SendResponse ==
  /\ pc = "responding"
  /\ ai_pc = "done"
  /\ LET reply == IF ai_return.kind = "return" THEN ai_return.value
                  ELSE ConnectionTrouble(language)
     IN  /\ ai_response' = reply
         /\ SendInUnit(Event("response", reply, language, FALSE), "send_tts")
  /\ UNCHANGED <<conn, units, data, forced_language, text, language, is_crisis,
                 crisis_lang>>
  /\ UNCHANGED <<pure_vars, genai_client, files, gen_vars, tr_vars>>

\* Variant that tags the request with the language of the reply text.
SendTts_reply_language ==
  /\ pc = "send_tts"
  /\ SendInUnit(Event("tts_request", ai_response,
                      detect_language_from_text(ai_response), FALSE), "receive")
  /\ UNCHANGED <<conn, units, data, forced_language, text, language, is_crisis,
                 crisis_lang, ai_response>>
  /\ UNCHANGED <<pure_vars, genai_client, files, gen_vars, tr_vars>>

\* Lines 982-986.
SendTts ==
  /\ pc = "send_tts"
  /\ SendInUnit(Event("tts_request", ai_response, language, FALSE), "receive")
  /\ UNCHANGED <<conn, units, data, forced_language, text, language, is_crisis,
                 crisis_lang, ai_response>>
  /\ UNCHANGED <<pure_vars, genai_client, files, gen_vars, tr_vars>>

\* The handler of the inner try block without its send_json: the exception
\* is logged only.
SendError_silent ==
  /\ pc = "send_error"
  /\ pc' = IF conn = "open" THEN "receive" ELSE "closed"
  /\ UNCHANGED <<events, unit_events>>
  /\ UNCHANGED <<conn, units, local_vars>>
  /\ UNCHANGED <<pure_vars, genai_client, files, gen_vars, tr_vars>>

\* Variant in which the handler ends after reporting the exception.
SendError_then_close ==
  /\ pc = "send_error"
  /\ pc' = "closed"
  /\ IF conn = "open"
     THEN Sent(Event("error", exc, "", FALSE))
     ELSE UNCHANGED <<events, unit_events>>
  /\ UNCHANGED <<conn, units, local_vars>>
  /\ UNCHANGED <<pure_vars, genai_client, files, gen_vars, tr_vars>>

\* Lines 988-993: the handler of the inner try block reports str(e); if
\* this send fails too, the exception leaves the loop and ends the handler.
SendError ==
  /\ pc = "send_error"
  /\ IF conn = "open"
     THEN /\ Sent(Event("error", exc, "", FALSE))
          /\ pc' = "receive"
     ELSE /\ pc' = "closed"
          /\ UNCHANGED <<events, unit_events>>
  /\ UNCHANGED <<conn, units, local_vars>>
  /\ UNCHANGED <<pure_vars, genai_client, files, gen_vars, tr_vars>>

Init ==
  /\ PureIdle
  /\ genai_client = None
  /\ files = {}
  /\ GenIdle
  /\ TrIdle
  /\ pc = "accept"
  /\ conn = "closed"
  /\ units = 0
  /\ data = NoData
  /\ forced_language = None
  /\ text = <<>>
  /\ language = ""
  /\ is_crisis = FALSE
  /\ crisis_lang = ""
  /\ ai_response = <<>>
  /\ exc = <<>>
  /\ events = <<>>
  /\ unit_events = <<>>

Next ==
  \/ load_models
  \/ Accept
  \/ ClientClose
  \/ SendConnected
  \/ Receive
  \/ SendPong
  \/ ConvertAudio
  \/ TrSave
  \/ TrUpload
  \/ TrFirst
  \/ TrSecond
  \/ TranscribeReturns
  \/ SendNoSpeech
  \/ SendTranscription
  \/ SendCrisis
  \/ GenerateContent
  \/ SleepDone
  \/ SendResponse
  \/ SendTts
  \/ SendError

Spec == Init /\ [][Next]_vars

\* A step of the handler between receive_json() returning a message and the
\* next receive_json(): the statements of lines 879-996.
UnitStep ==
  \/ SendPong
  \/ ConvertAudio
  \/ TrSave
  \/ TrUpload
  \/ TrFirst
  \/ TrSecond
  \/ TranscribeReturns
  \/ SendNoSpeech
  \/ SendTranscription
  \/ SendCrisis
  \/ GenerateContent
  \/ SleepDone
  \/ SendResponse
  \/ SendTts
  \/ SendError

\* The event loop resumes the handler coroutine whenever it can run, and
\* each call it awaits or makes (the subprocess, the upstream calls, the
\* sleep, the sends) returns or raises.
FairSpec == Init /\ [][Next]_vars /\ WF_vars(UnitStep)

(***************************************************************************)
(* text_to_speech and the lookups by language tag.                          *)
(***************************************************************************)

\* lang_map of text_to_speech.
lang_map ==
  ("en" :> "en") @@ ("hi" :> "hi") @@ ("hi-IN" :> "hi") @@
  ("bn" :> "bn") @@ ("bn-IN" :> "bn") @@ ("ta" :> "ta") @@ ("ta-IN" :> "ta") @@
  ("te" :> "te") @@ ("te-IN" :> "te") @@ ("gu" :> "gu") @@ ("gu-IN" :> "gu") @@
  ("kn" :> "kn") @@ ("kn-IN" :> "kn") @@ ("ml" :> "ml") @@ ("ml-IN" :> "ml") @@
  ("pa" :> "pa") @@ ("pa-IN" :> "pa") @@ ("auto" :> "en")

\* Variant that hands a tag missing from lang_map to gTTS as it is.
ResolveTtsLang_passthrough(lang) == Get(lang_map, lang, lang)

\* lang_map.get(language, "en") of line 1038.
ResolveTtsLang(lang) == Get(lang_map, lang, "en")

\* Language tags given to the lookups: the nine tags, "auto", a regional
\* form, and strings that are no supported tag.
LookupTags == LangTags \cup {"auto", "hi-IN", "fr", "EN", "xx-IN"}

\* Lines 1014-1038: a request GET /tts?text=...&language=in_tag arrives and
\* the gTTS language is resolved.
CallTextToSpeech ==
  /\ tts_pc = "idle"
  /\ in_tag # ""
  /\ tts_pc' = "gtts"
  /\ tts_language' = in_tag
  /\ tts_lang' = ResolveTtsLang(in_tag)
  /\ UNCHANGED <<in_text, lang_out, crisis_out, in_tag, msgs_out, tts_status>>
  /\ UNCHANGED <<genai_client, files, gen_vars, tr_vars, ws_vars>>

\* Lines 1041-1052: gTTS synthesises the audio and it is streamed back, or
\* an exception is turned into HTTPException(500).
GttsDone ==
  /\ tts_pc = "gtts"
  /\ tts_pc' = "done"
  /\ tts_status' \in {200, 500}
  /\ UNCHANGED <<in_text, lang_out, crisis_out, in_tag, msgs_out, tts_language, tts_lang>>
  /\ UNCHANGED <<genai_client, files, gen_vars, tr_vars, ws_vars>>

\* The handler's two lookups (lines 953 and 973) applied to in_tag.
LookupMessages ==
  /\ in_tag # ""
  /\ msgs_out = NoMsgs
  /\ msgs_out' = [crisis |-> crisis_response(in_tag),
                  trouble |-> ConnectionTrouble(in_tag)]
  /\ UNCHANGED <<in_text, lang_out, crisis_out, in_tag, tts_pc, tts_language,
                 tts_lang, tts_status>>
  /\ UNCHANGED <<genai_client, files, gen_vars, tr_vars, ws_vars>>

\* get_ai_response(in_text, in_tag) called directly.
CallGetAiResponseTag ==
  /\ ai_pc = "idle"
  /\ pc = "idle"
  /\ in_tag # ""
  /\ EnterGetAiResponse(in_text, in_tag)
  /\ UNCHANGED <<pure_vars, genai_client, files, tr_vars, ws_vars>>

InitLookups ==
  /\ in_text \in GenPrompts
  /\ lang_out = ""
  /\ crisis_out = <<>>
  /\ in_tag \in LookupTags
  /\ msgs_out = NoMsgs
  /\ tts_pc = "idle"
  /\ tts_language = ""
  /\ tts_lang = ""
  /\ tts_status = 0
  /\ genai_client = "ready"
  /\ files = {}
  /\ GenIdle
  /\ TrIdle
  /\ WsIdle

NextLookups ==
  \/ CallTextToSpeech
  \/ GttsDone
  \/ LookupMessages
  \/ CallGetAiResponseTag
  \/ GenerateContent
  \/ SleepDone

SpecLookups == InitLookups /\ [][NextLookups]_vars

(***************************************************************************)
(* Properties.                                                              *)
(***************************************************************************)

\* s is an initial segment of t.
IsPrefix(s, t) == Len(s) <= Len(t) /\ s = SubSeq(t, 1, Len(s))

\* Type and crisis flag of each event, in order.
Shape(evs) == [i \in 1..Len(evs) |-> <<evs[i].type, evs[i].crisis>>]

\* The configured phrases in lower case.
LoweredPhrases ==
  [l \in LangTags |->
     [j \in 1..Len(crisis_keywords[l]) |-> lower(crisis_keywords[l][j])]]

\* The text contains, in any letter case, a configured phrase of lang.
PhraseIn(lang, txt) ==
  LET t == lower(txt)
  IN  \E j \in 1..Len(crisis_keywords[lang]) : In(LoweredPhrases[lang][j], t)

HasCrisisPhrase(txt) == \E l \in LangTags : PhraseIn(l, txt)

\* transcribe_audio has returned this unit's transcript, and it is not empty.
NonEmptyTranscript ==
  /\ data.type = "audio"
  /\ tr_return.kind = "return"
  /\ tr_return.text # <<>>

\* The handler is back at receive_json() after the current unit.
UnitCompleted == pc = "receive" /\ units > 0

CrisisShape ==
  << <<"transcription", FALSE>>, <<"response", TRUE>>,
     <<"response", FALSE>>, <<"tts_request", FALSE>> >>

\* C1: for an audio unit whose transcript is non-empty and contains a
\* crisis phrase, the events sent for the unit are, in this order, one
\* transcription event, one response event with crisis=true, one response
\* event without the flag and one tts_request event: never anything else
\* while the unit is processed, and all four once the unit has completed.
C1_CrisisUnitFourEvents ==
  (NonEmptyTranscript /\ HasCrisisPhrase(tr_return.text)) =>
     /\ IsPrefix(Shape(unit_events), CrisisShape)
     /\ UnitCompleted => Shape(unit_events) = CrisisShape

C1_Witness ==
  /\ UnitCompleted
  /\ NonEmptyTranscript
  /\ HasCrisisPhrase(tr_return.text)
  /\ Len(unit_events) = 4
  /\ unit_events[2].crisis

\* C2: for an audio unit whose transcription result is empty text, the only
\* event ever sent is one error event "No speech detected" (no
\* transcription, response or tts_request), and the handler then returns to
\* the receive: it leaves the unit elsewhere only when the connection is
\* closed and the event could not be sent.
C2_EmptyTranscriptNoSpeech ==
  (data.type = "audio" /\ tr_return.kind = "return" /\ tr_return.text = <<>>) =>
     /\ pc \in {"transcribing", "send_no_speech", "receive", "send_error", "closed"}
     /\ IsPrefix(unit_events, <<Event("error", NoSpeechDetected, "", FALSE)>>)
     /\ pc = "receive" => unit_events = <<Event("error", NoSpeechDetected, "", FALSE)>>
     /\ pc = "send_error" => (conn = "closed" /\ unit_events = <<>>)
     /\ pc = "closed" => conn = "closed"

C2_Witness ==
  /\ UnitCompleted
  /\ data.type = "audio"
  /\ tr_return = [kind |-> "return", text |-> <<>>, lang |-> "en"]
  /\ unit_events = <<Event("error", NoSpeechDetected, "", FALSE)>>

\* The response events of the unit that carry no crisis flag.
NormalReplies ==
  { i \in 1..Len(unit_events) :
      unit_events[i].type = "response" /\ ~unit_events[i].crisis }

\* C3: a non-empty transcript yields exactly one normal (non-crisis)
\* response event in its unit, with or without the crisis flag and whatever
\* the outcomes of the Response Generator's upstream calls: never more than
\* one, and exactly one once the unit has completed.
C3_ExactlyOneNormalReply ==
  NonEmptyTranscript =>
     /\ Cardinality(NormalReplies) <= 1
     /\ UnitCompleted => Cardinality(NormalReplies) = 1

C3_Witness ==
  /\ UnitCompleted
  /\ NonEmptyTranscript
  /\ is_crisis
  /\ Len(ai_outcomes) = 3
  /\ \A i \in 1..3 : ~ai_outcomes[i].ok
  /\ Cardinality(NormalReplies) = 1

\* An upstream failure whose text marks an overload: it contains "503" or,
\* in any letter case, "overloaded".
OverloadFailure(o) ==
  /\ ~o.ok
  /\ \/ In(<<53, 48, 51>>, o.text)
     \/ In(<<111, 118, 101, 114, 108, 111, 97, 100, 101, 100>>, lower(o.text))

\* The first n upstream calls of get_ai_response failed with an overload.
FirstOverloaded(n) ==
  /\ Len(ai_outcomes) >= n
  /\ \A i \in 1..n : OverloadFailure(ai_outcomes[i])

\* The fallback sentence for the call's language argument: the sentence of
\* the tag ("auto" standing for the classifier's tag of the prompt), or the
\* English one when the tag has none.
ExpectedFallback ==
  LET tag == IF ai_arg_language = "auto"
             THEN detect_language_from_text(ai_prompt)
             ELSE ai_arg_language
  IN  IF tag \in DOMAIN fallback_messages
      THEN fallback_messages[tag]
      ELSE fallback_messages["en"]

\* C4: when the first two upstream calls fail with an overload error, a
\* third call is made, exactly two sleeps of 0.5 s and 1 s (500 and 1000 ms)
\* precede it, and when the third call succeeds its reply, stripped of
\* markup characters, is what get_ai_response returns.
C4_TwoOverloadsThenSuccess ==
  (ai_pc = "done" /\ FirstOverloaded(2)) =>
     /\ Len(ai_outcomes) = 3
     /\ ai_sleeps = <<500, 1000>>
     /\ ai_outcomes[3].ok =>
          ai_return = [kind |-> "return", value |-> StripMarkup(ai_outcomes[3].text)]

C4_Witness ==
  /\ ai_pc = "done"
  /\ FirstOverloaded(2)
  /\ Len(ai_outcomes) = 3
  /\ ai_outcomes[3].ok
  /\ ai_sleeps = <<500, 1000>>
  /\ ai_return.value = <<66, 114, 101, 97, 116, 104, 101, 32, 105, 110, 32, 49>>

\* C5: when three consecutive upstream calls fail with an overload error,
\* get_ai_response has ended: no fourth call, no sleep after the third
\* failure (the sleeps are 500 and 1000 ms), and the value returned is the
\* fallback sentence of the language tag.
C5_ThreeOverloadsFallback ==
  FirstOverloaded(3) =>
     /\ ai_pc = "done"
     /\ Len(ai_outcomes) = 3
     /\ ai_sleeps = <<500, 1000>>
     /\ ai_return = [kind |-> "return", value |-> ExpectedFallback]

C5_Witness ==
  /\ ai_pc = "done"
  /\ FirstOverloaded(3)
  /\ ai_arg_language = "ta"
  /\ ai_return = [kind |-> "return", value |-> fallback_messages["ta"]]

\* C6 as stated: a first failure whose text contains neither "503" nor
\* "overloaded" ends get_ai_response after that one call, without a sleep,
\* with the fallback sentence.
C6_Original ==
  ( /\ Len(ai_outcomes) >= 1
    /\ ~ai_outcomes[1].ok
    /\ ~In(<<53, 48, 51>>, ai_outcomes[1].text)
    /\ ~In(<<111, 118, 101, 114, 108, 111, 97, 100, 101, 100>>, ai_outcomes[1].text) ) =>
     /\ ai_pc = "done"
     /\ Len(ai_outcomes) = 1
     /\ ai_sleeps = <<>>
     /\ ai_return = [kind |-> "return", value |-> ExpectedFallback]

\* C6 (amended): a first failure whose text contains neither "503" nor, in
\* any letter case, "overloaded" ends get_ai_response after that one call,
\* without a sleep, with the fallback sentence.
C6_NonRetryableImmediateFallback ==
  (Len(ai_outcomes) >= 1 /\ ~ai_outcomes[1].ok /\ ~OverloadFailure(ai_outcomes[1])) =>
     /\ ai_pc = "done"
     /\ Len(ai_outcomes) = 1
     /\ ai_sleeps = <<>>
     /\ ai_return = [kind |-> "return", value |-> ExpectedFallback]

C6_Witness ==
  /\ ai_pc = "done"
  /\ genai_client # None
  /\ Len(ai_outcomes) = 1
  /\ ~ai_outcomes[1].ok
  /\ ~OverloadFailure(ai_outcomes[1])
  /\ ai_sleeps = <<>>
  /\ ai_return = [kind |-> "return", value |-> ExpectedFallback]

\* C7: get_ai_response never ends by raising: for every sequence of
\* upstream outcomes, and with the client handle uninitialized, it returns
\* either the stripped reply of its last call or the fallback sentence.
C7_NeverRaises ==
  ai_pc = "done" =>
     /\ ai_return.kind = "return"
     /\ Len(ai_outcomes) >= 1
     /\ IF ai_outcomes[Len(ai_outcomes)].ok
        THEN ai_return.value = StripMarkup(ai_outcomes[Len(ai_outcomes)].text)
        ELSE ai_return.value = ExpectedFallback

C7_Witness ==
  /\ ai_pc = "done"
  /\ genai_client = None
  /\ ai_outcomes = <<[ok |-> FALSE, text |-> NoneTypeError]>>
  /\ ai_return = [kind |-> "return", value |-> ExpectedFallback]

\* C8: when the text contains no crisis keyword of any language, in any
\* letter case, the Crisis Detector returns the flag false and the tag the
\* Language Classifier returns for the same text.
C8_NoKeywordGivesClassifierTag ==
  (crisis_out # <<>> /\ lang_out # "" /\ ~HasCrisisPhrase(in_text)) =>
     crisis_out = <<FALSE, lang_out>>

C8_Witness ==
  /\ ~HasCrisisPhrase(in_text)
  /\ lang_out = "ta"
  /\ crisis_out = <<FALSE, "ta">>

\* The text contains a configured phrase of lang exactly as configured.
PhraseVerbatimIn(lang, txt) ==
  \E j \in 1..Len(crisis_keywords[lang]) : In(crisis_keywords[lang][j], txt)

\* C9 as stated: a text containing a configured phrase of language L gets
\* the flag true and the language L, also when it contains a phrase of
\* another language.
C9_Original ==
  crisis_out # <<>> =>
     \A l \in LangTags : PhraseVerbatimIn(l, in_text) => crisis_out = <<TRUE, l>>

\* C9 (amended): a text containing a configured phrase of language L gets
\* the flag true, whatever the Language Classifier returns for it; the
\* language returned is L when the text contains no phrase of a language
\* that precedes L in the order en, hi, bn, ta, te, gu, kn, ml, pa.
C9_FirstLanguageInOrder ==
  crisis_out # <<>> =>
     \A i \in 1..Len(LangOrder) :
        PhraseIn(LangOrder[i], in_text) =>
           /\ crisis_out[1] = TRUE
           /\ (\A k \in 1..(i - 1) : ~PhraseIn(LangOrder[k], in_text)) =>
                 crisis_out[2] = LangOrder[i]

C9_Witness ==
  /\ PhraseVerbatimIn("bn", in_text)
  /\ PhraseVerbatimIn("pa", in_text)
  /\ lang_out = "en"
  /\ crisis_out = <<TRUE, "bn">>

\* The Unicode blocks of the supported scripts.
ScriptBlocks ==
  { <<2304, 2431>>, <<2432, 2559>>, <<2944, 3071>>, <<3072, 3199>>,
    <<2688, 2815>>, <<3200, 3327>>, <<3328, 3455>>, <<2560, 2687>> }

NoSupportedScript(txt) ==
  \A i \in 1..Len(txt) : \A b \in ScriptBlocks : txt[i] < b[1] \/ txt[i] > b[2]

\* C10: the Language Classifier returns, for every text, one tag of the
\* set {en, hi, bn, ta, te, gu, kn, ml, pa}, and returns en for the empty
\* text and for every text without a character of a supported script block.
C10_ClassifierTotal ==
  lang_out # "" =>
     /\ lang_out \in {"en", "hi", "bn", "ta", "te", "gu", "kn", "ml", "pa"}
     /\ NoSupportedScript(in_text) => lang_out = "en"

C10_Witness ==
  /\ in_text = <<>>
  /\ lang_out = "en"

\* C11 as stated: no exception raised while an inbound unit is processed
\* ends the session; the handler ends only after the connection was closed.
\* This is to hold for every inbound JSON value.
C11_ExceptionsNeverEndSession ==
  pc = "closed" => conn = "closed"

\* The two temporary files websocket_endpoint creates for the current unit.
UnitTempFiles == { <<units, "tmp_in">>, <<units, "tmp_wav">> }

\* C12 as stated: once an audio unit has been processed, with or without a
\* failure of one of its steps, neither its input temporary file nor its
\* converted WAV temporary file is on disk.
C12_NoTempFilesAfterUnit ==
  (data.type = "audio" /\ pc \in {"receive", "closed"}) =>
     files \cap UnitTempFiles = {}

\* C13 as stated: when the client forces a language (a hint other than null
\* and "auto"), transcribe_audio makes exactly one upstream transcription
\* call, without a corrective one, and the detected-language tag it returns
\* with the transcript is the forced language, whatever the heuristics say.
C13_ForcedLanguageWins ==
  ( /\ tr_pc = "done"
    /\ ~IsAuto(tr_language)
    /\ tr_return.kind = "return"
    /\ tr_return.text # <<>> ) =>
       /\ Len(tr_prompts) = 1
       /\ tr_return.lang = tr_language

\* An upstream call of transcribe_audio failed after the first call had
\* returned a transcript: the except clause of line 161 returned ("", "en").
TranscriberCallFailed ==
  /\ Len(tr_prompts) = 2
  /\ tr_return = [kind |-> "return", text |-> <<>>, lang |-> "en"]

\* An upstream call of get_ai_response failed.
GeneratorCallFailed ==
  \E i \in 1..Len(ai_outcomes) : ~ai_outcomes[i].ok

\* A response event with crisis=true was sent for the current unit.
CrisisEventSent ==
  \E i \in 1..Len(unit_events) :
     unit_events[i].type = "response" /\ unit_events[i].crisis

\* C15 as stated: when the speech of an audio unit, as the upstream service
\* transcribed it, contains a crisis phrase, the crisis response event is
\* sent for the unit even though an upstream call of the transcriber or of
\* the response generator failed.
C15_CrisisEventDespiteFailures ==
  ( /\ UnitCompleted
    /\ data.type = "audio"
    /\ HasCrisisPhrase(tr_first_text)
    /\ (TranscriberCallFailed \/ GeneratorCallFailed) ) =>
       CrisisEventSent

\* The events of the current unit end with an explicit error event, or with
\* a response event followed by the tts_request event of the same text.
TerminalOutcome ==
  LET n == Len(unit_events) IN
  /\ n >= 1
  /\ \/ unit_events[n].type = "error"
     \/ /\ n >= 2
        /\ unit_events[n].type = "tts_request"
        /\ unit_events[n - 1].type = "response"
        /\ unit_events[n - 1].text = unit_events[n].text

\* The handler is back at receive_json() after an audio unit.
AudioUnitCompleted == UnitCompleted /\ data.type = "audio"

\* C14: every audio unit received on an open connection eventually gets its
\* terminal outcome on that connection, unless the client closes it first:
\* the unit never ends without an event, each of its paths, failing or not,
\* ends with an error event or with a response event followed by a
\* tts_request event, and the handler ends during an audio unit only when
\* the connection is closed.
C14_AudioUnitGetsOutcome ==
  /\ [](AudioUnitCompleted => TerminalOutcome)
  /\ []((data.type = "audio" /\ pc = "closed") => conn = "closed")
  /\ (pc = "convert") ~> ((AudioUnitCompleted /\ TerminalOutcome) \/ conn = "closed")

C14_Witness ==
  /\ AudioUnitCompleted
  /\ GeneratorCallFailed
  /\ ai_return = [kind |-> "return", value |-> fallback_messages["hi"]]
  /\ Shape(unit_events) =
       << <<"transcription", FALSE>>, <<"response", FALSE>>,
          <<"tts_request", FALSE>> >>
  /\ unit_events[2].text = fallback_messages["hi"]

\* C16: whatever the client's language hint and whatever the transcript,
\* the language tag of every transcription, response and tts_request event
\* is one of the nine supported tags.
C16_EventTagsSupported ==
  \A i \in 1..Len(unit_events) :
     unit_events[i].type \in {"transcription", "response", "tts_request"} =>
        unit_events[i].language \in LangTags

C16_Witness ==
  /\ AudioUnitCompleted
  /\ forced_language = "xx"
  /\ Len(unit_events) = 3
  /\ \A i \in 1..3 : unit_events[i].language = "en"

\* The tags text_to_speech has an entry for, "auto" excepted.
TtsAccepted == DOMAIN lang_map \ {"auto"}

\* C17: a language tag that is unrecognized or unsupported gets the English
\* behaviour at every lookup: get_ai_response's prompt configuration and
\* fallback sentence, the crisis message table and the connection-trouble
\* table; text_to_speech resolves "auto" and every tag missing from its
\* map to the gTTS code en, and every tag it accepts to one of the nine
\* codes.
C17_UnknownTagsFallBackToEnglish ==
  /\ (ai_pc # "idle" /\ ai_arg_language \notin LangTags \cup {"auto"}) =>
        /\ ai_context.lang_instruction = "English"
        /\ ~ai_context.script_instruction
        /\ (ai_return.kind = "return" /\ ~ai_outcomes[Len(ai_outcomes)].ok) =>
              ai_return.value = fallback_messages["en"]
  /\ (msgs_out # NoMsgs /\ in_tag \notin LangTags) =>
        msgs_out.crisis = crisis_messages["en"]
  /\ (msgs_out # NoMsgs /\ in_tag \notin {"en", "hi", "bn"}) =>
        msgs_out.trouble = fallback_msgs["en"]
  /\ tts_pc # "idle" =>
        /\ tts_lang \in LangTags
        /\ tts_language \notin TtsAccepted => tts_lang = "en"

C17_Witness ==
  /\ in_tag = "xx-IN"
  /\ tts_pc = "done"
  /\ tts_lang = "en"
  /\ tts_status = 200
  /\ msgs_out = [crisis |-> crisis_messages["en"], trouble |-> fallback_msgs["en"]]
  /\ ai_context.lang_instruction = "English"
  /\ ai_return = [kind |-> "return", value |-> fallback_messages["en"]]

\* C18: within one connection the inbound messages are processed one after
\* the other.  Every event is sent while the message it belongs to is the
\* last one received, so the events of message n are all sent before
\* message n+1 is received and the session's events are ordered by message;
\* a message is received only when the handler is at receive_json(), never
\* while a unit waits in a backoff sleep or in an upstream call.
C18_SequentialUnits ==
  /\ [](\A i \in 1..Len(events) :
          /\ events[i].unit <= units
          /\ i < Len(events) => events[i].unit <= events[i + 1].unit)
  /\ [](ai_pc \in {"call", "sleep"} => pc = "responding")
  /\ [][units' # units =>
          /\ units' = units + 1
          /\ pc = "receive"
          /\ ai_pc \notin {"call", "sleep"}
          /\ tr_pc \in {"idle", "done"}
          /\ events' = events]_vars
  /\ [][events' # events =>
          /\ units' = units
          /\ Len(events') = Len(events) + 1
          /\ SubSeq(events', 1, Len(events)) = events
          /\ events'[Len(events')].unit = units]_vars

C18_Witness ==
  /\ units = 2
  /\ UnitCompleted
  /\ ai_sleeps # <<>>
  /\ \E i, j \in 1..Len(events) :
        /\ i < j
        /\ events[i].unit = 1 /\ events[i].type = "tts_request"
        /\ events[j].unit = 2 /\ events[j].type = "transcription"

Pong == Event("pong", <<>>, "", FALSE)

\* C20: a ping message yields exactly one pong event and nothing else: no
\* transcription, no crisis detection, no upstream call, no temporary file
\* and no other event.
C20_PingOnlyPong ==
  data.type = "ping" =>
     /\ pc \in {"send_pong", "receive", "closed"}
     /\ IsPrefix(unit_events, <<Pong>>)
     /\ pc = "receive" => unit_events = <<Pong>>
     /\ tr_pc = "idle" /\ tr_prompts = <<>>
     /\ ai_pc = "idle" /\ ai_outcomes = <<>>
     /\ text = <<>> /\ ~is_crisis /\ crisis_lang = ""
     /\ \A f \in files : f[1] # units

C20_Witness ==
  /\ data.type = "ping"
  /\ UnitCompleted
  /\ units = 2
  /\ unit_events = <<Pong>>
  /\ events[Len(events)] = [unit |-> 2, type |-> "pong"]

\* C21: the connected acknowledgement is the first event of the session and
\* is sent once: before it nothing is sent and nothing is received, every
\* session that has sent an event or received a message has it as its first
\* event, and no later event is a connected event.
C21_ConnectedFirstOnce ==
  /\ pc \in {"accept", "send_connected"} => (events = <<>> /\ units = 0)
  /\ (units > 0 \/ pc = "receive") => events # <<>>
  /\ events # <<>> => events[1] = [unit |-> 0, type |-> "connected"]
  /\ \A i \in 2..Len(events) : events[i].type # "connected"

C21_Witness ==
  /\ units = 2
  /\ UnitCompleted
  /\ Len(events) >= 3
  /\ events[1] = [unit |-> 0, type |-> "connected"]
  /\ events[2].unit = 1

\* At least two of the lower-cased whitespace-delimited tokens of t contain
\* a phonetic fragment of language l (hi or bn).
Threshold(t, l) ==
  IF l = "hi" THEN hindi_pattern_count(t) >= 2 ELSE bengali_pattern_count(t) >= 2

\* t has a character of the script block of language l (hi or bn).
Native(t, l) ==
  IF l = "hi" THEN has_devanagari(t) ELSE has_bengali(t)

\* The corrective transcripts after strip().
SecondTexts == { strip(raw) : raw \in CorrectiveTranscripts }

\* The condition of the disambiguation rule for language l on transcript t.
NeedsCorrective(t, l) == Threshold(t, l) /\ ~Native(t, l)

CorrectivePrompt(l) == IF l = "hi" THEN "prompt_hindi" ELSE "prompt_bengali"

\* transcribe_audio has just ended, after its first upstream call had
\* returned a transcript.
TranscribedOnce ==
  /\ pc = "transcribing"
  /\ tr_pc = "done"
  /\ Len(tr_prompts) >= 1
  /\ ~(Len(tr_prompts) = 1 /\ tr_return = [kind |-> "return", text |-> <<>>, lang |-> "en"]
       /\ tr_first_text = <<>>)

\* A corrective call was issued for language l.
CorrectiveIssued(l) == Len(tr_prompts) = 2 /\ tr_prompts[2] = CorrectivePrompt(l)

\* C22 as stated: at most two upstream transcription calls, and when the
\* first transcript meets the phonetic threshold of both languages (in
\* auto-detect mode) the corrective call is issued for the first of them,
\* Hindi, and the returned detected language is Hindi.
C22_Original ==
  /\ Len(tr_prompts) <= 2
  /\ ( /\ TranscribedOnce
       /\ IsAuto(tr_language)
       /\ Threshold(tr_first_text, "hi")
       /\ Threshold(tr_first_text, "bn") ) =>
          /\ CorrectiveIssued("hi")
          /\ tr_return.lang = "hi"

\* C22 (amended): at most one corrective call per transcription, hence at
\* most two upstream transcription calls; a corrective call is issued for
\* the first language, in the order Hindi then Bengali, for which the first
\* transcript meets the threshold and has no native-script character; and
\* when the corrective call returns, the detected language is that language.
C22_AtMostOneCorrective ==
  /\ Len(tr_prompts) <= 2
  /\ \A l \in {"hi", "bn"} :
       (pc = "transcribing" /\ tr_pc = "done" /\ CorrectiveIssued(l)) =>
          /\ NeedsCorrective(tr_first_text, l)
          /\ l = "bn" => ~NeedsCorrective(tr_first_text, "hi")
          /\ tr_return.kind = "return"
          /\ tr_return # [kind |-> "return", text |-> <<>>, lang |-> "en"] =>
                tr_return.lang = l

C22_Witness ==
  /\ tr_pc = "done"
  /\ Threshold(tr_first_text, "hi")
  /\ Threshold(tr_first_text, "bn")
  /\ ~Native(tr_first_text, "hi")
  /\ CorrectiveIssued("hi")
  /\ tr_return = [kind |-> "return", text |-> <<2350, 2376, 2306>>, lang |-> "hi"]

\* C23 as stated: in auto-detect mode a corrective call is issued for a
\* language exactly when the first transcript has no native-script
\* character of that language and meets its threshold.
C23_Original ==
  (TranscribedOnce /\ IsAuto(tr_language)) =>
     \A l \in {"hi", "bn"} :
        CorrectiveIssued(l) <=> NeedsCorrective(tr_first_text, l)

\* C23 (amended): in auto-detect mode a corrective call is issued for Hindi
\* exactly when the first transcript meets the Hindi threshold and has no
\* Devanagari character, and for Bengali exactly when it meets the Bengali
\* threshold, has no Bengali character and Hindi's condition does not hold;
\* the text of a corrective call that returns replaces the first
\* transcript; when neither condition holds there is one upstream
\* transcription call and the first transcript is returned.
C23_CorrectiveExactlyWhen ==
  (TranscribedOnce /\ IsAuto(tr_language)) =>
     /\ CorrectiveIssued("hi") <=> NeedsCorrective(tr_first_text, "hi")
     /\ CorrectiveIssued("bn") <=>
           (NeedsCorrective(tr_first_text, "bn") /\ ~NeedsCorrective(tr_first_text, "hi"))
     /\ Len(tr_prompts) = 2 =>
           \/ tr_return = [kind |-> "return", text |-> <<>>, lang |-> "en"]
           \/ /\ tr_return.text \in SecondTexts
              /\ tr_return.text # tr_first_text
     /\ Len(tr_prompts) = 1 =>
           /\ tr_return.kind = "return"
           /\ tr_return.text = tr_first_text

C23_Witness ==
  /\ tr_pc = "done"
  /\ IsAuto(tr_language)
  /\ NeedsCorrective(tr_first_text, "bn")
  /\ Threshold(tr_first_text, "hi")
  /\ Native(tr_first_text, "hi")
  /\ CorrectiveIssued("bn")
  /\ tr_return = [kind |-> "return", text |-> <<2438, 2478, 2495>>, lang |-> "bn"]

(***************************************************************************)
(* C24: failures of transcribe_audio and how the handler reports them.      *)
(***************************************************************************)

\* transcribe_audio has ended after one of its statements raised.
AdapterFailed == tr_pc = "done" /\ tr_exc # ""

DegradedReturn == [kind |-> "return", text |-> <<>>, lang |-> "en"]

NoSpeechEvent == Event("error", NoSpeechDetected, "", FALSE)

\* C24 as stated: whichever statement of transcribe_audio fails (the test
\* of the client handle, the writing of the container, the upload, the
\* first or the corrective upstream call), it returns ("", "en"), and the
\* only event of the unit is the "No speech detected" event.
C24_Original ==
  /\ AdapterFailed => tr_return = DegradedReturn
  /\ (AdapterFailed /\ AudioUnitCompleted) => unit_events = <<NoSpeechEvent>>

\* C24 (amended): when the upload or an upstream call (the first or the
\* corrective one) fails, transcribe_audio returns ("", "en") and the only
\* event of the unit is "No speech detected"; when the client handle is
\* missing or the container cannot be created or written, the exception
\* leaves transcribe_audio before any upstream call and the only event of
\* the unit is the error event carrying the exception's text.
C24_AdapterFailureOutcome ==
  /\ (AdapterFailed /\ tr_exc \in {"upload_file", "generate_content"}) =>
        /\ tr_return = DegradedReturn
        /\ AudioUnitCompleted => unit_events = <<NoSpeechEvent>>
  /\ (AdapterFailed /\ tr_exc \in {"raise", "NamedTemporaryFile", "sf.write"}) =>
        /\ tr_return.kind = "raise"
        /\ tr_return.text \in {ClientNotInitialized, SaveError}
        /\ tr_prompts = <<>>
        /\ AudioUnitCompleted =>
              unit_events = <<Event("error", tr_return.text, "", FALSE)>>
  /\ AdapterFailed =>
        tr_exc \in {"raise", "NamedTemporaryFile", "sf.write", "upload_file",
                    "generate_content"}

C24_Witness ==
  /\ AudioUnitCompleted
  /\ AdapterFailed
  /\ tr_exc = "generate_content"
  /\ Len(tr_prompts) = 2
  /\ unit_events = <<NoSpeechEvent>>

(***************************************************************************)
(* C25: the temporary container of transcribe_audio.                        *)
(***************************************************************************)

\* C25 as stated: once transcribe_audio has returned or raised, whatever
\* the outcome of the writing of the container, of the upload, of the first
\* call and of the corrective call, the container created by that call is
\* no longer on disk.
C25_ContainerReleased ==
  tr_pc = "done" => <<units, "tr">> \notin files

(***************************************************************************)
(* C26: a failure of the external decode tool.                              *)
(***************************************************************************)

\* The decode tool exited non-zero for the current audio unit.
DecodeFailed == data.type = "audio" /\ exc = ConvertError("ffmpeg")

\* C26: when the decode tool exits non-zero for an audio unit, the
\* exception reaches the handler of the unit: no upstream call is made for
\* the unit, no transcription, response or tts_request event is sent, the
\* unit ends with exactly one event, the error event with the exception's
\* text, after which the handler is back at the receive; the handler ends
\* instead only when the client has closed the connection.
C26_DecodeFailureReported ==
  DecodeFailed =>
     /\ tr_pc = "idle" /\ tr_prompts = <<>>
     /\ ai_pc = "idle" /\ ai_outcomes = <<>>
     /\ pc \in {"send_error", "receive", "closed"}
     /\ pc = "send_error" => unit_events = <<>>
     /\ pc = "receive" =>
           unit_events = <<Event("error", ConvertError("ffmpeg"), "", FALSE)>>
     /\ pc = "closed" =>
           /\ conn = "closed"
           /\ unit_events \in {<<>>, <<Event("error", ConvertError("ffmpeg"), "", FALSE)>>}

C26_Witness ==
  /\ DecodeFailed
  /\ pc = "receive"
  /\ conn = "open"
  /\ units = 1
  /\ unit_events = <<Event("error", ConvertError("ffmpeg"), "", FALSE)>>
  /\ events = <<[unit |-> 0, type |-> "connected"], [unit |-> 1, type |-> "error"]>>

(***************************************************************************)
(* C27: the retry loop of get_ai_response.                                  *)
(***************************************************************************)

\* C27: whatever the upstream outcomes, get_ai_response makes at most 3
\* upstream calls and at most 2 sleeps; a further call is made only after
\* a call that failed with an overload; a sleep is started only after an
\* overload failure of call k < 3 and lasts 500 * 2^(k-1) ms; and a failure
\* that is no overload, at whichever attempt, ends the loop with the
\* fallback without another sleep or call.
C27_RetryDiscipline ==
  LET n == Len(ai_outcomes) IN
  /\ n <= 3
  /\ Len(ai_sleeps) <= 2
  /\ \A k \in 1..(n - 1) : OverloadFailure(ai_outcomes[k])
  /\ Len(ai_sleeps) = (IF ai_pc \in {"sleep", "call"} \/ n = 0 THEN n ELSE n - 1)
  /\ \A k \in 1..Len(ai_sleeps) :
        /\ k < 3
        /\ OverloadFailure(ai_outcomes[k])
        /\ ai_sleeps[k] = 500 * 2 ^ (k - 1)
  /\ (n >= 1 /\ ~ai_outcomes[n].ok /\ ~OverloadFailure(ai_outcomes[n])) =>
        /\ ai_pc = "done"
        /\ ai_return = [kind |-> "return", value |-> FallbackFor(ai_language)]

C27_Witness ==
  /\ ai_pc = "done"
  /\ Len(ai_outcomes) = 2
  /\ OverloadFailure(ai_outcomes[1])
  /\ ~ai_outcomes[2].ok
  /\ ~OverloadFailure(ai_outcomes[2])
  /\ ai_sleeps = <<500>>
  /\ ai_return = [kind |-> "return", value |-> FallbackFor(ai_language)]

(***************************************************************************)
(* C28: the tts_request event.                                              *)
(***************************************************************************)

\* The i-th event of the current unit is a normal response event.
NormalResponseAt(i) ==
  unit_events[i].type = "response" /\ ~unit_events[i].crisis

\* C28: in every unit a tts_request event comes immediately after the
\* normal response event and has its text and its language tag, which is
\* the language tag of the unit's transcription event; the handler is about
\* to send it whenever the normal response, generated or fallback, has been
\* sent, and a completed unit that has a normal response ends with its
\* tts_request.
C28_TtsMirrorsResponse ==
  /\ \A i \in 1..Len(unit_events) :
        unit_events[i].type = "tts_request" =>
           /\ i > 1
           /\ NormalResponseAt(i - 1)
           /\ unit_events[i].text = unit_events[i - 1].text
           /\ unit_events[i].language = unit_events[i - 1].language
           /\ unit_events[1].type = "transcription"
           /\ unit_events[i].language = unit_events[1].language
  /\ \A i \in 1..Len(unit_events) :
        NormalResponseAt(i) =>
           \/ /\ i = Len(unit_events)
              /\ pc \in {"send_tts", "send_error", "closed"}
              /\ pc = "send_tts" =>
                    (ai_response = unit_events[i].text /\ language = unit_events[i].language)
              /\ pc \in {"send_error", "closed"} => conn = "closed"
           \/ /\ i + 1 = Len(unit_events)
              /\ unit_events[i + 1].type = "tts_request"

C28_Witness ==
  /\ AudioUnitCompleted
  /\ language = "hi"
  /\ Len(ai_outcomes) >= 1
  /\ ~ai_outcomes[Len(ai_outcomes)].ok
  /\ Len(unit_events) = 3
  /\ unit_events[1].type = "transcription" /\ unit_events[1].language = "hi"
  /\ unit_events[2] = Event("response", FallbackFor("hi"), "hi", FALSE)
  /\ unit_events[3] = Event("tts_request", FallbackFor("hi"), "hi", FALSE)

(***************************************************************************)
(* C29: the crisis event and the response generator.                        *)
(***************************************************************************)

\* The crisis response event of the current unit, sent right after the
\* transcription event.
CrisisEventSecond ==
  /\ Len(unit_events) >= 2
  /\ unit_events[1].type = "transcription"
  /\ unit_events[2] = Event("response", crisis_response(crisis_lang), crisis_lang, TRUE)

\* What get_ai_response returns after its last upstream outcome.
GeneratorReply ==
  IF ai_outcomes[Len(ai_outcomes)].ok
  THEN StripMarkup(ai_outcomes[Len(ai_outcomes)].text)
  ELSE FallbackFor(ai_language)

\* C29: when the crisis flag is set, the crisis response event has been
\* sent before get_ai_response is entered; whatever the upstream calls of
\* get_ai_response then do, the crisis event remains the second event of
\* the unit, and a unit that completes has after it exactly one normal
\* response event, carrying the reply or the fallback, and one tts_request
\* event.
C29_CrisisBeforeGenerator ==
  /\ (is_crisis /\ ai_pc # "idle") => CrisisEventSecond
  /\ (is_crisis /\ pc \in {"responding", "send_tts"}) => CrisisEventSecond
  /\ (is_crisis /\ AudioUnitCompleted) =>
        /\ CrisisEventSecond
        /\ ai_pc = "done"
        /\ Len(ai_outcomes) >= 1
        /\ Len(unit_events) = 4
        /\ unit_events[3] = Event("response", GeneratorReply, language, FALSE)
        /\ unit_events[4] = Event("tts_request", GeneratorReply, language, FALSE)

C29_Witness ==
  /\ is_crisis
  /\ AudioUnitCompleted
  /\ Len(ai_outcomes) = 3
  /\ \A i \in 1..3 : OverloadFailure(ai_outcomes[i])
  /\ CrisisEventSecond
  /\ Len(unit_events) = 4
  /\ unit_events[3] = Event("response", FallbackFor(ai_language), language, FALSE)
  /\ unit_events[4].type = "tts_request"

(***************************************************************************)
(* C30: the end of the connection.                                          *)
(***************************************************************************)

\* Positions of the handler at a send_json inside the inner try block.
InnerSends ==
  {"send_no_speech", "send_transcription", "send_crisis", "responding", "send_tts"}

\* Positions of the handler at a receive_json or at a send_json outside the
\* inner try block.
OuterCalls == {"send_connected", "receive", "send_pong", "send_error"}

\* The client has closed the connection of the accepted session.
ConnectionClosed == conn = "closed" /\ pc # "accept"

\* C30: once the connection is closed, no event is sent and no unit is
\* started; the send or receive at which the handler observes the close
\* fails, from inside a unit into the handler of the unit, whose error send
\* fails as well, and otherwise out of the loop; and a handler that has
\* ended stays ended.
C30_CloseEndsSilently ==
  [][ /\ ConnectionClosed =>
           (events' = events /\ unit_events' = unit_events /\ units' = units)
      /\ (ConnectionClosed /\ pc \in InnerSends /\ pc' # pc) =>
           (pc' = "send_error" /\ exc' = DisconnectError)
      /\ (ConnectionClosed /\ pc \in OuterCalls /\ pc' # pc) => pc' = "closed"
      /\ (pc = "send_error" /\ exc = DisconnectError) => ConnectionClosed
      /\ pc = "closed" => pc' = "closed"
    ]_vars

C30_Witness ==
  /\ pc = "closed"
  /\ conn = "closed"
  /\ exc = DisconnectError
  /\ Len(unit_events) = 2
  /\ unit_events[2].type = "response" /\ unit_events[2].crisis
  /\ units = 1

(***************************************************************************)
(* C31: mixed-script text in the Language Classifier.                       *)
(***************************************************************************)

\* The supported scripts in the order of the classifier's tests, each with
\* the bounds of its Unicode block.
ScriptPriority ==
  << <<"hi", 2304, 2431>>, <<"bn", 2432, 2559>>, <<"ta", 2944, 3071>>,
     <<"te", 3072, 3199>>, <<"gu", 2688, 2815>>, <<"kn", 3200, 3327>>,
     <<"ml", 3328, 3455>>, <<"pa", 2560, 2687>> >>

\* txt has, at some position, a character of the k-th script.
ScriptPresent(k, txt) ==
  \E i \in 1..Len(txt) :
     txt[i] >= ScriptPriority[k][2] /\ txt[i] <= ScriptPriority[k][3]

\* C31: for every text the Language Classifier returns the tag of the
\* first script, in the order hi, bn, ta, te, gu, kn, ml, pa, of which the
\* text has a character at any position; the positions of the characters
\* of the other scripts do not matter.
C31_ScriptPriority ==
  lang_out # "" =>
     \A k \in 1..Len(ScriptPriority) :
        ( /\ ScriptPresent(k, in_text)
          /\ \A h \in 1..(k - 1) : ~ScriptPresent(h, in_text) ) =>
             lang_out = ScriptPriority[k][1]

C31_Witness ==
  /\ in_text = <<2581, 2432>>
  /\ lang_out = "bn"

(***************************************************************************)
(* C32: the language of the crisis assessment.                              *)
(***************************************************************************)

\* Positions, in the order en, hi, bn, ta, te, gu, kn, ml, pa, of the
\* languages of which txt contains a crisis phrase.
CrisisHits(txt) == { i \in 1..Len(LangOrder) : PhraseIn(LangOrder[i], txt) }

\* The earliest language of that order with a crisis phrase in txt.
EarliestCrisisLanguage(txt) ==
  LangOrder[CHOOSE i \in CrisisHits(txt) : \A j \in CrisisHits(txt) : i <= j]

\* C32: when the transcript of a unit contains crisis phrases, the crisis
\* assessment is the earliest language, in the order en, hi, bn, ta, te,
\* gu, kn, ml, pa, of which it contains a phrase, wherever the phrases stand
\* in the text; the crisis event carries this language and its message,
\* also when the transcription event carries another language.
C32_CrisisLanguageEarliest ==
  /\ pc = "send_crisis" =>
        /\ is_crisis
        /\ CrisisHits(text) # {}
        /\ crisis_lang = EarliestCrisisLanguage(text)
        /\ unit_events = <<Event("transcription", text, language, FALSE)>>
  /\ \A i \in 1..Len(unit_events) :
        (unit_events[i].type = "response" /\ unit_events[i].crisis) =>
           /\ is_crisis
           /\ unit_events[i] =
                 Event("response", crisis_response(crisis_lang), crisis_lang, TRUE)

C32_Witness ==
  /\ Len(unit_events) >= 2
  /\ unit_events[1].type = "transcription"
  /\ unit_events[1].text = crisis_keywords["ta"][1] \o crisis_keywords["en"][1]
  /\ unit_events[2].type = "response"
  /\ unit_events[2].crisis
  /\ unit_events[2].language = "en"

(***************************************************************************)
(* C33: the events of a unit without a crisis phrase.                       *)
(***************************************************************************)

PlainShape ==
  << <<"transcription", FALSE>>, <<"response", FALSE>>, <<"tts_request", FALSE>> >>

\* The events of the unit so far are the beginning of the three events of
\* a plain unit, and all three once the unit has completed.
PlainUnitEvents ==
  /\ IsPrefix(Shape(unit_events), PlainShape)
  /\ UnitCompleted => Shape(unit_events) = PlainShape

\* C33: for an audio unit whose transcript is non-empty and contains no
\* crisis phrase, the events sent for the unit are, in this order, one
\* transcription event, one response event without the crisis flag and one
\* tts_request event: never anything else while the unit is processed, and
\* all three once it has completed; and a response event with crisis=true
\* is only ever the second event of a unit, after the transcription event
\* of a transcript that contains a crisis phrase.
C33_PlainUnitThreeEvents ==
  /\ (NonEmptyTranscript /\ ~PlainUnitEvents) => HasCrisisPhrase(tr_return.text)
  /\ \A i \in 1..Len(unit_events) :
        (unit_events[i].type = "response" /\ unit_events[i].crisis) =>
           /\ i = 2
           /\ unit_events[1] = Event("transcription", tr_return.text, tr_return.lang, FALSE)
           /\ NonEmptyTranscript
           /\ HasCrisisPhrase(tr_return.text)

C33_Witness ==
  /\ UnitCompleted
  /\ NonEmptyTranscript
  /\ ~is_crisis
  /\ tr_return.text = <<104, 101, 108, 108, 111, 32, 116, 104, 101, 114, 101>>
  /\ Shape(unit_events) = PlainShape

(***************************************************************************)
(* C34: inbound objects of another type.                                    *)
(***************************************************************************)

\* C34: an inbound JSON object whose type is neither "audio" nor "ping" is
\* ignored: receiving it sends no event, starts no call, creates no file
\* and leaves the handler at the receive with the connection open; nothing
\* is sent or called for it afterwards, and the handler ends after it only
\* when the client has closed the connection.
C34_OtherTypeIgnored ==
  /\ [][ (units' = units + 1 /\ data'.type = "other") =>
            /\ conn = "open" /\ conn' = "open"
            /\ pc' = "receive"
            /\ events' = events
            /\ files' = files
            /\ tr_pc' = "idle" /\ ai_pc' = "idle"
       ]_vars
  /\ [](data.type = "other" =>
          /\ unit_events = <<>>
          /\ tr_pc = "idle" /\ tr_prompts = <<>>
          /\ ai_pc = "idle" /\ ai_outcomes = <<>>
          /\ pc \in {"receive", "closed"}
          /\ pc = "closed" => conn = "closed")

C34_Witness ==
  /\ data.type = "other"
  /\ pc = "receive"
  /\ units = 1
  /\ conn = "open"
  /\ events = <<[unit |-> 0, type |-> "connected"]>>

(***************************************************************************)
(* C35: the language tags of the events.                                    *)
(***************************************************************************)

\* The tags transcribe_audio can return.
AdapterTags == {"en", "hi", "bn"}

\* txt has a character of the Tamil block and none of the heuristics of
\* transcribe_audio fires on it.
TamilOnly(txt) ==
  /\ \E i \in 1..Len(txt) : txt[i] >= 2944 /\ txt[i] <= 3071
  /\ ~Native(txt, "hi") /\ ~Native(txt, "bn")
  /\ ~Threshold(txt, "hi") /\ ~Threshold(txt, "bn")

\* C35: whatever the forced language and the transcripts, the language
\* transcribe_audio returns is en, hi or bn (a transcript in Tamil script
\* gets en, also when ta is forced); hence the transcription, normal
\* response and tts_request events of a unit carry one of these three tags,
\* while the crisis response event carries the tag of the crisis assessment,
\* one of the nine tags.
C35_AdapterTagsOnly ==
  /\ (tr_pc = "done" /\ tr_return.kind = "return") => tr_return.lang \in AdapterTags
  /\ ( /\ pc = "transcribing" /\ tr_pc = "done" /\ tr_return.kind = "return"
       /\ Len(tr_prompts) = 1
       /\ TamilOnly(tr_return.text) ) => tr_return.lang = "en"
  /\ \A i \in 1..Len(unit_events) :
        /\ unit_events[i].type \in {"transcription", "tts_request"} =>
              unit_events[i].language \in AdapterTags
        /\ unit_events[i].type = "response" =>
              IF unit_events[i].crisis
              THEN unit_events[i].language \in LangTags
                   /\ unit_events[i].language = crisis_lang
              ELSE unit_events[i].language \in AdapterTags

C35_Witness ==
  /\ UnitCompleted
  /\ tr_language = "ta"
  /\ Len(unit_events) = 4
  /\ unit_events[1].type = "transcription" /\ unit_events[1].language = "en"
  /\ unit_events[2].type = "response" /\ unit_events[2].crisis
  /\ unit_events[2].language = "ta"
  /\ unit_events[3].language = "en"
  /\ unit_events[4].type = "tts_request" /\ unit_events[4].language = "en"

(***************************************************************************)
(* C36: the result of the corrective call.                                  *)
(***************************************************************************)

\* transcribe_audio has ended after issuing its corrective call.
CorrectiveEnded == tr_pc = "done" /\ Len(tr_prompts) = 2

\* The language of the corrective call that was issued.
CorrectedLanguage == IF tr_prompts[2] = "prompt_hindi" THEN "hi" ELSE "bn"

\* C36: after a corrective call, transcribe_audio returns the stripped
\* text of that call in place of the first transcript, with the corrected
\* language as the detected language whatever the script of the new text;
\* when that text is empty the only event of the unit is "No speech
\* detected" although the first call had produced text, and otherwise the
\* transcription event carries the new text and the corrected language;
\* when the corrective call raises, transcribe_audio returns ("", "en").
C36_CorrectiveReplaces ==
  CorrectiveEnded =>
     /\ tr_first_text # <<>>
     /\ IF tr_exc = ""
        THEN /\ tr_return.kind = "return"
             /\ tr_return.text \in SecondTexts
             /\ tr_return.lang = CorrectedLanguage
        ELSE /\ tr_exc = "generate_content"
             /\ tr_return = DegradedReturn
     /\ (AudioUnitCompleted /\ tr_return.text = <<>>) =>
           unit_events = <<NoSpeechEvent>>
     /\ (tr_return.text # <<>> /\ unit_events # <<>>) =>
           unit_events[1] =
              Event("transcription", tr_return.text, CorrectedLanguage, FALSE)

C36_Witness ==
  /\ AudioUnitCompleted
  /\ CorrectiveEnded
  /\ tr_exc = ""
  /\ tr_first_text # <<>>
  /\ tr_return = [kind |-> "return", text |-> <<>>, lang |-> "hi"]
  /\ unit_events = <<NoSpeechEvent>>

=============================================================================
